---- MODULE Spec2Model ----
(***************************************************************************)
(* SolGuard: the Discovery -> Lifecycle -> Policy -> Reclamation ->        *)
(* Attestation pipeline over one shared ledger (SQLite file) and one       *)
(* chain (RPC).  Every stage is a separate operating-system process; the   *)
(* ledger statements of one synchronous block of a process (no await in    *)
(* between) are one action, and an RPC read is taken together with the     *)
(* synchronous block that consumes its answer.                             *)
(***************************************************************************)
EXTENDS Integers, Sequences, FiniteSets, TLC

\* ------------------------------------------------------------------ bounds
MaxLamports == 2
MaxStageRuns == 4
MaxChainSteps == 1

\* --------------------------------------------------------------- universes
\* Account keys in ascending base58 order, worker ids (one per process).
AcctSeq == <<"A1", "A2">>
\* The account the Indexer finds in the pipeline runs.
Accts == {AcctSeq[1]}
Rank(a) == CHOOSE i \in 1..Len(AcctSeq) : AcctSeq[i] = a
WorkerSeq == <<"w1", "w2">>
Workers == {WorkerSeq[i] : i \in 1..Len(WorkerSeq)}

\* SQL NULL of a text column and of an integer column.
NULL == "NULL"
NULL_INT == -1

SYSTEM_PROGRAM_ID == "11111111111111111111111111111111"
OTHER_PROGRAM_ID == "TokenkegQfeZyiNwAJbNbGKPFXCWuBvf9Ss623VQ5DA"

\* Account infos the chain can answer with; Absent is the RPC's null.
Absent == [exists |-> FALSE, lamports |-> 0, owner |-> SYSTEM_PROGRAM_ID, dataLen |-> 0]
ChainInfo(l, o, d) == [exists |-> TRUE, lamports |-> l, owner |-> o, dataLen |-> d]

\* ------------------------------------------------------------ table helpers
Range(s) == {s[i] : i \in 1..Len(s)}

\* The first n elements of s (SQL LIMIT n, Array.slice(0, n)).
Take(s, n) == SubSeq(s, 1, IF Len(s) < n THEN Len(s) ELSE n)

\* ORDER BY account_pubkey ASC.
RECURSIVE SortByPubkey(_)
SortByPubkey(t) ==
    IF t = <<>> THEN <<>>
    ELSE LET m == CHOOSE i \in 1..Len(t) :
                    \A j \in 1..Len(t) : Rank(t[i].account_pubkey) <= Rank(t[j].account_pubkey)
             rest == [k \in 1..(Len(t) - 1) |-> IF k < m THEN t[k] ELSE t[k + 1]]
         IN <<t[m]>> \o SortByPubkey(rest)

Keys(t) == {t[i].account_pubkey : i \in 1..Len(t)}
RowOf(t, k) == t[CHOOSE i \in 1..Len(t) : t[i].account_pubkey = k]

\* UPDATE t SET <the columns of set> WHERE account_pubkey = k.
UpdateRow(t, k, set) ==
    [i \in 1..Len(t) |->
        IF t[i].account_pubkey = k
        THEN [f \in DOMAIN t[i] |-> IF f \in DOMAIN set THEN set[f] ELSE t[i][f]]
        ELSE t[i]]

\* -------------------------------------------------------------------- state
VARIABLES
    sponsored_accounts,  \* the table, rows in rowid (insertion) order
    lifecycle_events,    \* the table, rows in id order
    chain,               \* account key -> on-chain account info
    chainSteps,          \* changes made on chain by parties other than the tool
    txlog,               \* every transaction a worker signed and submitted
    deposits,            \* account key -> latest phase in which it was paid into
    runs,                \* Lifecycle and Policy runs that wrote to the ledger
    lpc, laccounts, linfos, li,          \* the Lifecycle process
    wpc, wdry, candidates, batches, result,  \* the Reclaimer workers
    jitOk,               \* worker -> locked accounts its last JIT read found safe
    owned,               \* worker -> accounts it fetched and has not reported
    lostReports,         \* confirmed transactions whose worker died before reporting
    startedAfter,        \* worker -> lostReports as it was when the worker started
    apc, akey, aconfig,  \* the Attestation run: position, signing key, inputs
    doc,                 \* the attestation document at hand
    stmt,                \* the event a process has yet to insert for a row it updated
    history,             \* the operator's transactions on chain, oldest first
    cursor,              \* system_kv_store: the Indexer's resume cursor
    ipc,                 \* the Indexer process: position, or how its last run ended
    untilSignature, beforeSignature, latestInBatch,  \* locals of Indexer.run
    signatures,          \* the signatures of the page that are yet to be parsed
    firstLatest,         \* the newest signature of the first page of the run
    seenLen,             \* the length of the history when the run started
    quiet,               \* the history is as it was when a completed run started
    rerun,               \* the run started on such a history
    ptz,                 \* the host's offset from UTC
    pnow,                \* the host's clock
    batchSize,           \* config.batchSize || 100 of the Reclaimer runs
    audit_log,           \* the rows of audit_log written by AppDatabase.log
    planner              \* a call of ReclaimerPlanner.plan: its argument, its answer

ledgerVars == <<sponsored_accounts, lifecycle_events>>
chainVars == <<chain, chainSteps, txlog, deposits>>
stageVars == <<runs, lpc, laccounts, linfos, li>>
lifecycleVars == <<lpc, laccounts, linfos, li>>
workerVars == <<wpc, wdry, candidates, batches, result, jitOk, owned, lostReports, startedAfter>>
attVars == <<apc, akey, aconfig, doc>>
idxVars == <<history, cursor, ipc, untilSignature, beforeSignature, latestInBatch,
             signatures, firstLatest, seenLen, quiet, rerun>>
polVars == <<ptz, pnow, batchSize, audit_log, planner>>
\* What the steps of the pipeline leave alone.
sideVars == <<attVars, stmt, idxVars, polVars>>
pipelineVars == <<ledgerVars, chainVars, stageVars, workerVars>>

\* The day on which the pipeline runs (the specification's runs share it).
Today == 0

\* Time is counted in units of twelve hours.  CURRENT_TIMESTAMP writes the
\* instant as UTC text without a zone; new Date(text) reads text of that
\* form as local time, so on a host tz units ahead of UTC the instant it
\* returns is tz units earlier.
DayLength == 2
TimeZones == {-1, 0, 1}
UTC == 0
CURRENT_TIMESTAMP(now) == now
DateParse(text, tz) == text - tz

LifecycleStates ==
    {"DISCOVERED", "ACTIVE", "CLOSED", "PROTECTED", "SKIPPED", "DUST",
     "RECLAIMABLE", "RECLAIMED", "FAILED", "closed_zero"}

\* A sponsored account as createAccount leaves it: funded, owned by the
\* system program, without data.
InitInfos == {ChainInfo(1, SYSTEM_PROGRAM_ID, 0)}

NoEvidence == [signature |-> NULL_INT, batchTotal |-> NULL_INT, amount |-> NULL_INT]

\* INSERT INTO lifecycle_events (account_pubkey, old_state, new_state,
\* trigger_reason, evidence_payload): the id is the position in the table.
Event(pubkey, old, new, reason, evidence) ==
    [account_pubkey |-> pubkey, old_state |-> old, new_state |-> new,
     trigger_reason |-> reason, evidence_payload |-> evidence]

\* ------------------------------------------------------------------ Indexer
\* An INSERT OR REPLACE in place of ON CONFLICT DO NOTHING.
storeSponsoredAccount_Replace(tbl, pubkey, dryRun) ==
    IF dryRun THEN tbl
    ELSE LET fresh == [account_pubkey |-> pubkey,
                       lifecycle_state |-> "DISCOVERED",
                       lamports |-> NULL_INT,
                       data_len |-> NULL_INT,
                       owner_program |-> NULL,
                       last_lifecycle_check |-> NULL_INT,
                       processing_lock |-> NULL]
             Others(r) == r.account_pubkey # pubkey
         IN Append(SelectSeq(tbl, Others), fresh)

\* INSERT ... ON CONFLICT(account_pubkey) DO NOTHING; the schema's defaults
\* fill lifecycle_state with DISCOVERED and leave the snapshot columns NULL.
storeSponsoredAccount(tbl, pubkey, dryRun) ==
    IF dryRun \/ pubkey \in Keys(tbl) THEN tbl
    ELSE Append(tbl, [account_pubkey |-> pubkey,
                      lifecycle_state |-> "DISCOVERED",
                      lamports |-> NULL_INT,
                      data_len |-> NULL_INT,
                      owner_program |-> NULL,
                      last_lifecycle_check |-> NULL_INT,
                      processing_lock |-> NULL])

\* The Indexer finds a createAccount of the operator for account a.
IndexerStore(a, dryRun) ==
    /\ UNCHANGED sideVars
    /\ sponsored_accounts' = storeSponsoredAccount(sponsored_accounts, a, dryRun)
    /\ sponsored_accounts' # sponsored_accounts
    /\ UNCHANGED <<lifecycle_events, chainVars, stageVars, workerVars>>

\* ---------------------------------------------------------------- Lifecycle
\* scan(): SELECT account_pubkey, lifecycle_state FROM sponsored_accounts,
\* then getMultipleAccountsInfo for the (single) chunk of the scan.
LifecycleScan ==
    /\ UNCHANGED sideVars
    /\ lpc = "idle"
    /\ runs < MaxStageRuns
    /\ sponsored_accounts # <<>>
    /\ runs' = runs + 1
    /\ laccounts' = [i \in 1..Len(sponsored_accounts) |->
                        [account_pubkey |-> sponsored_accounts[i].account_pubkey,
                         lifecycle_state |-> sponsored_accounts[i].lifecycle_state]]
    /\ linfos' = [i \in 1..Len(sponsored_accounts) |->
                        chain[sponsored_accounts[i].account_pubkey]]
    /\ li' = 1
    /\ lpc' = "eval"
    /\ UNCHANGED <<ledgerVars, chainVars, workerVars>>

\* The label evaluateAccount derives from the chain's answer.
LifecycleLabel(info) == IF ~info.exists THEN "CLOSED" ELSE "ACTIVE"

LifecycleReason(currentState, info) ==
    IF ~info.exists THEN "Account info is null (does not exist)."
    ELSE IF currentState = "CLOSED" THEN "Account re-appeared on-chain (re-initialized)."
    ELSE "Account exists on-chain."

\* An update that persists the label and the time of the check only.
updateAccountData_LabelOnly(tbl, pubkey, state, info, dryRun, ts) ==
    IF dryRun THEN tbl
    ELSE UpdateRow(tbl, pubkey, [lifecycle_state |-> state, last_lifecycle_check |-> ts])

\* updateAccountData: evidence.lamports || 0, evidence.dataLen || 0,
\* evidence.owner || null, last_lifecycle_check = CURRENT_TIMESTAMP.
updateAccountData(tbl, pubkey, state, info, dryRun, ts) ==
    IF dryRun THEN tbl
    ELSE LET set == [lifecycle_state |-> state,
                     lamports |-> IF info.exists THEN info.lamports ELSE 0,
                     data_len |-> IF info.exists THEN info.dataLen ELSE 0,
                     owner_program |-> IF info.exists THEN info.owner ELSE NULL,
                     last_lifecycle_check |-> ts]
         IN UpdateRow(tbl, pubkey, set)

\* evaluateAccount for the li-th account of the snapshot: persist the
\* observation, and record an event if the label differs from the snapshot.
LifecycleEvaluate ==
    /\ UNCHANGED sideVars
    /\ lpc = "eval"
    /\ LET account == laccounts[li]
           info == linfos[li]
           currentState == account.lifecycle_state
           newState == LifecycleLabel(info)
       IN /\ sponsored_accounts' =
                updateAccountData(sponsored_accounts, account.account_pubkey,
                                  newState, info, FALSE, CURRENT_TIMESTAMP(pnow))
          /\ lifecycle_events' =
                IF newState # currentState
                THEN Append(lifecycle_events,
                            Event(account.account_pubkey, currentState, newState,
                                  LifecycleReason(currentState, info), NoEvidence))
                ELSE lifecycle_events
    /\ IF li = Len(laccounts)
       THEN lpc' = "idle" /\ laccounts' = <<>> /\ linfos' = <<>> /\ li' = 1
       ELSE lpc' = "eval" /\ li' = li + 1 /\ UNCHANGED <<laccounts, linfos>>
    /\ UNCHANGED <<chainVars, runs, workerVars>>

\* ------------------------------------------------------------------- Policy
PolicyConfigs ==
    [dryRun : {FALSE}, minLamports : {0, MaxLamports}, minAgeDays : {0},
     whitelist : {{}, {AcctSeq[1]}}]

NoDecision == "none"

\* checkEligibility: the new state, or NoDecision to keep the current one.
checkEligibility(account, config, now, tz) ==
    IF account.account_pubkey \in config.whitelist THEN "PROTECTED"
    ELSE IF account.lamports = NULL_INT \/ account.owner_program = NULL THEN "SKIPPED"
    ELSE IF account.owner_program # SYSTEM_PROGRAM_ID THEN "SKIPPED"
    ELSE IF account.data_len # NULL_INT /\ account.data_len > 0 THEN "SKIPPED"
    ELSE IF account.lamports < config.minLamports THEN "DUST"
    ELSE IF account.lamports <= 0 THEN "SKIPPED"
    ELSE IF config.minAgeDays > 0 /\ account.last_lifecycle_check = NULL_INT THEN "SKIPPED"
    ELSE IF config.minAgeDays > 0
            /\ now - DateParse(account.last_lifecycle_check, tz)
                  < config.minAgeDays * DayLength THEN NoDecision
    ELSE "RECLAIMABLE"

PolicyReason(account, config, today) ==
    IF account.account_pubkey \in config.whitelist THEN "Policy: Whitelisted"
    ELSE IF account.lamports = NULL_INT \/ account.owner_program = NULL
         THEN "Policy: Missing lifecycle data"
    ELSE IF account.owner_program # SYSTEM_PROGRAM_ID
         THEN "Policy: Owner is not System Program"
    ELSE IF account.data_len # NULL_INT /\ account.data_len > 0
         THEN "Policy: Account has data"
    ELSE IF account.lamports < config.minLamports THEN "Policy: Balance < Min"
    ELSE IF account.lamports <= 0 THEN "Policy: 0 Balance"
    ELSE IF config.minAgeDays > 0 /\ account.last_lifecycle_check = NULL_INT
         THEN "Policy: No age data"
    ELSE "Policy: Passes all safety & eligibility rules"

\* WHERE lifecycle_state NOT IN ('RECLAIMABLE', 'reclaimed', 'closed_zero'):
\* SQLite compares text byte for byte.
PolicyExcluded == {"RECLAIMABLE", "reclaimed", "closed_zero"}

PolicyCandidates(tbl) ==
    LET Test(r) == r.lifecycle_state \notin PolicyExcluded
    IN SortByPubkey(SelectSeq(tbl, Test))

\* A loop that calls updateState for every decision, changed or not.
RECURSIVE PolicyLoop_AlwaysUpdate(_, _, _, _, _)
PolicyLoop_AlwaysUpdate(cands, config, now, tz, db) ==
    IF cands = <<>> THEN db
    ELSE LET account == Head(cands)
             decision == checkEligibility(account, config, now, tz)
             set == [lifecycle_state |-> decision]
             db2 == IF decision # NoDecision /\ ~config.dryRun
                    THEN [tbl |-> UpdateRow(db.tbl, account.account_pubkey, set),
                          evs |-> Append(db.evs,
                                    Event(account.account_pubkey, account.lifecycle_state,
                                          decision, PolicyReason(account, config, now),
                                          NoEvidence))]
                    ELSE db
         IN PolicyLoop_AlwaysUpdate(Tail(cands), config, now, tz, db2)

\* updateState on the table and on the event log (nothing in dry-run).
RECURSIVE PolicyLoop(_, _, _, _, _)
PolicyLoop(cands, config, now, tz, db) ==
    IF cands = <<>> THEN db
    ELSE LET account == Head(cands)
             decision == checkEligibility(account, config, now, tz)
             set == [lifecycle_state |-> decision]
             db2 == IF decision # NoDecision /\ decision # account.lifecycle_state
                       /\ ~config.dryRun
                    THEN [tbl |-> UpdateRow(db.tbl, account.account_pubkey, set),
                          evs |-> Append(db.evs,
                                    Event(account.account_pubkey, account.lifecycle_state,
                                          decision, PolicyReason(account, config, now),
                                          NoEvidence))]
                    ELSE db
         IN PolicyLoop(Tail(cands), config, now, tz, db2)

\* evaluate(): one synchronous pass, no await between its statements.
PolicyEvaluate(config) ==
    /\ UNCHANGED sideVars
    /\ runs < MaxStageRuns
    /\ runs' = runs + 1
    /\ LET db == PolicyLoop(PolicyCandidates(sponsored_accounts), config, Today, UTC,
                            [tbl |-> sponsored_accounts, evs |-> lifecycle_events])
       IN /\ sponsored_accounts' = db.tbl
          /\ lifecycle_events' = db.evs
          /\ db.evs # lifecycle_events
    /\ UNCHANGED <<chainVars, lifecycleVars, workerVars>>

\* ---------------------------------------------------------------- Reclaimer
BATCH_SIZE == 100
MAX_INSTRUCTIONS_PER_TX == 10
DRY_RUN_SIGNATURE == 0

Pubkeys(accounts) == [i \in 1..Len(accounts) |-> accounts[i].account_pubkey]

\* A fetch that does not look at processing_lock.
FetchCandidates_IgnoreLock(tbl, limit) ==
    LET Test(r) == r.lifecycle_state = "RECLAIMABLE"
    IN Take(SelectSeq(tbl, Test), limit)

\* The rows fetchAndLock selects: RECLAIMABLE and not locked, LIMIT limit.
FetchCandidates(tbl, limit) ==
    LET Test(r) == /\ r.lifecycle_state = "RECLAIMABLE"
                   /\ (r.processing_lock = NULL \/ r.processing_lock = "")
    IN Take(SelectSeq(tbl, Test), limit)

\* fetchAndLock: one ledger transaction that selects and locks.
fetchAndLock(tbl, limit, workerId) ==
    LET cands == FetchCandidates(tbl, limit)
        locked == {cands[i].account_pubkey : i \in 1..Len(cands)}
    IN [candidates |-> [i \in 1..Len(cands) |->
                           [account_pubkey |-> cands[i].account_pubkey,
                            lamports |-> cands[i].lamports]],
        tbl |-> [i \in 1..Len(tbl) |->
                    IF tbl[i].account_pubkey \in locked
                    THEN [tbl[i] EXCEPT !.processing_lock = workerId]
                    ELSE tbl[i]]]

\* A verification without the owner check.
VerifyStatus_NoOwnerCheck(info) ==
    IF ~info.exists THEN "closed_zero"
    ELSE IF info.lamports = 0 THEN "closed_zero"
    ELSE IF info.dataLen > 0 THEN "SKIPPED"
    ELSE "valid"

\* A verification without the zero-balance check.
VerifyStatus_NoZeroCheck(info) ==
    IF ~info.exists THEN "closed_zero"
    ELSE IF info.owner # SYSTEM_PROGRAM_ID THEN "SKIPPED"
    ELSE IF info.dataLen > 0 THEN "SKIPPED"
    ELSE "valid"

\* ReclaimerVerifier.verify on one account: the outcome of the first check
\* that matches.
VerifyStatus(info) ==
    IF ~info.exists THEN "closed_zero"
    ELSE IF info.lamports = 0 THEN "closed_zero"
    ELSE IF info.owner # SYSTEM_PROGRAM_ID THEN "SKIPPED"
    ELSE IF info.dataLen > 0 THEN "SKIPPED"
    ELSE "valid"

VerifyReason(info) ==
    IF ~info.exists THEN "Account does not exist on-chain"
    ELSE IF info.lamports = 0 THEN "Account has 0 lamports"
    ELSE IF info.owner # SYSTEM_PROGRAM_ID THEN "Owner changed"
    ELSE "Account has data"

\* A verification that carries the stored lamports forward.
verify_CachedLamports(accounts, infos) ==
    LET idx == 1..Len(accounts)
        all == [i \in idx |->
                  [account_pubkey |-> accounts[i].account_pubkey,
                   lamports |-> accounts[i].lamports,
                   verifiedLamports |-> accounts[i].lamports,
                   status |-> VerifyStatus(infos[accounts[i].account_pubkey]),
                   reason |-> VerifyReason(infos[accounts[i].account_pubkey])]]
        Valid(v) == v.status = "valid"
        Invalid(v) == v.status # "valid"
        validSeq == SelectSeq(all, Valid)
    IN [valid |-> [i \in 1..Len(validSeq) |->
                      [account_pubkey |-> validSeq[i].account_pubkey,
                       lamports |-> validSeq[i].lamports,
                       verifiedLamports |-> validSeq[i].verifiedLamports]],
        invalid |-> SelectSeq(all, Invalid)]

\* verify: the valid accounts carry the on-chain lamports, the invalid ones
\* their outcome; both keep the order of the candidates.
verify(accounts, infos) ==
    LET idx == 1..Len(accounts)
        IsValid(i) == VerifyStatus(infos[accounts[i].account_pubkey]) = "valid"
        all == [i \in idx |->
                  [account_pubkey |-> accounts[i].account_pubkey,
                   lamports |-> accounts[i].lamports,
                   verifiedLamports |-> infos[accounts[i].account_pubkey].lamports,
                   status |-> VerifyStatus(infos[accounts[i].account_pubkey]),
                   reason |-> VerifyReason(infos[accounts[i].account_pubkey])]]
        Valid(v) == v.status = "valid"
        Invalid(v) == v.status # "valid"
        validSeq == SelectSeq(all, Valid)
    IN [valid |-> [i \in 1..Len(validSeq) |->
                      [account_pubkey |-> validSeq[i].account_pubkey,
                       lamports |-> validSeq[i].lamports,
                       verifiedLamports |-> validSeq[i].verifiedLamports]],
        invalid |-> SelectSeq(all, Invalid)]

\* A plan that puts all the accounts into one batch.
plan_OneBatch(accounts, max) == IF accounts = <<>> THEN <<>> ELSE <<accounts>>

\* No call of plan has been made.
NoPlan == [pc |-> "idle", accounts |-> <<>>, batches |-> <<>>]

\* ReclaimerPlanner.plan: consecutive chunks of at most max accounts.
RECURSIVE plan(_, _)
plan(accounts, max) ==
    IF accounts = <<>> THEN <<>>
    ELSE <<Take(accounts, max)>>
            \o plan(SubSeq(accounts, Len(Take(accounts, max)) + 1, Len(accounts)), max)

RECURSIVE SumVerified(_)
SumVerified(accounts) ==
    IF accounts = <<>> THEN 0
    ELSE Head(accounts).verifiedLamports + SumVerified(Tail(accounts))

\* A skip report that deletes the row of the account and writes the event.
recordSkip_DeleteRow(db, pubkey, reason, status) ==
    LET Others(r) == r.account_pubkey # pubkey
    IN [tbl |-> SelectSeq(db.tbl, Others),
        evs |-> Append(db.evs, Event(pubkey, "RECLAIMABLE", status, reason, NoEvidence))]

\* A skip report that leaves the lock on the row.
recordSkip_KeepLock(db, pubkey, reason, status) ==
    LET set == [lifecycle_state |-> status]
    IN [tbl |-> UpdateRow(db.tbl, pubkey, set),
        evs |-> Append(db.evs, Event(pubkey, "RECLAIMABLE", status, reason, NoEvidence))]

\* A skip report that clears the lock and does nothing else.
recordSkip_Unlock(db, pubkey, reason, status) ==
    LET set == [processing_lock |-> NULL]
    IN [tbl |-> UpdateRow(db.tbl, pubkey, set), evs |-> db.evs]

\* recordSkip: the row leaves RECLAIMABLE with its lock cleared, one event.
recordSkip(db, pubkey, reason, status) ==
    LET set == [lifecycle_state |-> status, processing_lock |-> NULL]
    IN [tbl |-> UpdateRow(db.tbl, pubkey, set),
        evs |-> Append(db.evs, Event(pubkey, "RECLAIMABLE", status, reason, NoEvidence))]

RECURSIVE recordSkips(_, _)
recordSkips(db, invalid) ==
    IF invalid = <<>> THEN db
    ELSE recordSkips(recordSkip(db, Head(invalid).account_pubkey, Head(invalid).reason,
                                Head(invalid).status),
                     Tail(invalid))

\* A success report that leaves the stored balance alone.
RECURSIVE recordSuccess_KeepLamports(_, _, _, _)
recordSuccess_KeepLamports(db, pubkeys, signature, lamports) ==
    IF pubkeys = <<>> THEN db
    ELSE LET set == [lifecycle_state |-> "RECLAIMED", processing_lock |-> NULL]
             db2 == [tbl |-> UpdateRow(db.tbl, Head(pubkeys), set),
                     evs |-> Append(db.evs,
                               Event(Head(pubkeys), "RECLAIMABLE", "RECLAIMED",
                                     "Reclamation Success",
                                     [signature |-> signature, batchTotal |-> lamports,
                                      amount |-> NULL_INT]))]
         IN recordSuccess_KeepLamports(db2, Tail(pubkeys), signature, lamports)

\* A success report that commits after the first account of the batch.
RECURSIVE recordSuccess_FirstOnly(_, _, _, _)
recordSuccess_FirstOnly(db, pubkeys, signature, lamports) ==
    IF pubkeys = <<>> THEN db
    ELSE LET set == [lifecycle_state |-> "RECLAIMED", lamports |-> 0,
                     processing_lock |-> NULL]
             db2 == [tbl |-> UpdateRow(db.tbl, Head(pubkeys), set),
                     evs |-> Append(db.evs,
                               Event(Head(pubkeys), "RECLAIMABLE", "RECLAIMED",
                                     "Reclamation Success",
                                     [signature |-> signature, batchTotal |-> lamports,
                                      amount |-> NULL_INT]))]
         IN recordSuccess_FirstOnly(db2, <<>>, signature, lamports)

\* recordSuccess: one ledger transaction over the accounts of the batch.
RECURSIVE recordSuccess(_, _, _, _)
recordSuccess(db, pubkeys, signature, lamports) ==
    IF pubkeys = <<>> THEN db
    ELSE LET set == [lifecycle_state |-> "RECLAIMED", lamports |-> 0,
                     processing_lock |-> NULL]
             db2 == [tbl |-> UpdateRow(db.tbl, Head(pubkeys), set),
                     evs |-> Append(db.evs,
                               Event(Head(pubkeys), "RECLAIMABLE", "RECLAIMED",
                                     "Reclamation Success",
                                     [signature |-> signature, batchTotal |-> lamports,
                                      amount |-> NULL_INT]))]
         IN recordSuccess(db2, Tail(pubkeys), signature, lamports)

\* The messages a failed sendAndConfirmTransaction can carry.
ErrorMessages == {"insufficient lamports", "Blockhash not found"}

\* The template `Tx Error: ${error}`.
TxErrorReason(error) ==
    CASE error = "insufficient lamports" -> "Tx Error: insufficient lamports"
      [] error = "Blockhash not found" -> "Tx Error: Blockhash not found"
      [] OTHER -> "Tx Error: Unknown Error"

\* result.error || 'Unknown Error'.
OrUnknownError(error) == IF error \in {NULL, ""} THEN "Unknown Error" ELSE error

\* A failure report that leaves the lock on the row.
RECURSIVE recordFailure_KeepLock(_, _, _)
recordFailure_KeepLock(db, pubkeys, error) ==
    IF pubkeys = <<>> THEN db
    ELSE LET set == [lifecycle_state |-> "FAILED"]
             db2 == [tbl |-> UpdateRow(db.tbl, Head(pubkeys), set),
                     evs |-> Append(db.evs,
                               Event(Head(pubkeys), "RECLAIMABLE", "FAILED",
                                     TxErrorReason(error), NoEvidence))]
         IN recordFailure_KeepLock(db2, Tail(pubkeys), error)

\* A failure report that zeroes the stored balance.
RECURSIVE recordFailure_ZeroLamports(_, _, _)
recordFailure_ZeroLamports(db, pubkeys, error) ==
    IF pubkeys = <<>> THEN db
    ELSE LET set == [lifecycle_state |-> "FAILED", lamports |-> 0,
                     processing_lock |-> NULL]
             db2 == [tbl |-> UpdateRow(db.tbl, Head(pubkeys), set),
                     evs |-> Append(db.evs,
                               Event(Head(pubkeys), "RECLAIMABLE", "FAILED",
                                     TxErrorReason(error), NoEvidence))]
         IN recordFailure_ZeroLamports(db2, Tail(pubkeys), error)

\* recordFailure: one ledger transaction over the accounts of the batch.
RECURSIVE recordFailure(_, _, _)
recordFailure(db, pubkeys, error) ==
    IF pubkeys = <<>> THEN db
    ELSE LET set == [lifecycle_state |-> "FAILED", processing_lock |-> NULL]
             db2 == [tbl |-> UpdateRow(db.tbl, Head(pubkeys), set),
                     evs |-> Append(db.evs,
                               Event(Head(pubkeys), "RECLAIMABLE", "FAILED",
                                     TxErrorReason(error), NoEvidence))]
         IN recordFailure(db2, Tail(pubkeys), error)

NoResult ==
    [success |-> FALSE, signature |-> NULL_INT, lamportsRecovered |-> 0, error |-> NULL]


\* The top of the while loop of execute(): fetch and lock, leave the loop on
\* an empty answer, otherwise ask the chain about the candidates.
LoopTop(w, db, reported) ==
    LET f == fetchAndLock(db.tbl, batchSize, w)
    IN /\ owned' = [owned EXCEPT ![w] = (@ \ reported) \cup Range(Pubkeys(f.candidates))]
       /\ sponsored_accounts' = f.tbl
       /\ lifecycle_events' = db.evs
       /\ candidates' = [candidates EXCEPT ![w] = f.candidates]
       /\ jitOk' = [jitOk EXCEPT ![w] = {}]
       /\ wpc' = [wpc EXCEPT ![w] = IF f.candidates = <<>> THEN "done" ELSE "verify"]
       /\ result' = [result EXCEPT ![w] = NoResult]

\* execute() up to its first await.  The worker ids are interchangeable: the
\* processes take them in order.
WorkerStart(w, dryRun) ==
    /\ UNCHANGED sideVars
    /\ wpc[w] = "idle"
    /\ \E i \in 1..Len(WorkerSeq) :
          WorkerSeq[i] = w /\ \A j \in 1..(i - 1) : wpc[WorkerSeq[j]] # "idle"
    /\ wdry' = [wdry EXCEPT ![w] = dryRun]
    /\ LoopTop(w, [tbl |-> sponsored_accounts, evs |-> lifecycle_events], {})
    /\ startedAfter' = [startedAfter EXCEPT ![w] = lostReports]
    /\ UNCHANGED <<chainVars, stageVars, batches, lostReports>>

\* What the claim about JIT verification asks of the chain's answer.
SafeToReclaim(info) ==
    info.exists /\ info.lamports > 0 /\ info.owner = SYSTEM_PROGRAM_ID /\ info.dataLen = 0

\* The answer of getMultipleAccountsInfo and the block that consumes it:
\* skips are recorded, then either the loop starts over or the plan is made
\* and the first batch goes to the executor.
WorkerVerify(w) ==
    /\ UNCHANGED sideVars
    /\ wpc[w] = "verify"
    /\ LET v == verify(candidates[w], chain)
           db == recordSkips([tbl |-> sponsored_accounts, evs |-> lifecycle_events],
                             v.invalid)
       IN /\ deposits' = [a \in DOMAIN deposits |->
                            IF a \in Range(Pubkeys(v.valid)) /\ deposits[a] = "unseen"
                            THEN "none" ELSE deposits[a]]
          /\ IF v.valid = <<>>
             THEN /\ LoopTop(w, db, Range(Pubkeys(v.invalid)))
                  /\ UNCHANGED batches
             ELSE /\ sponsored_accounts' = db.tbl
                  /\ lifecycle_events' = db.evs
                  /\ batches' = [batches EXCEPT ![w] = plan(v.valid, MAX_INSTRUCTIONS_PER_TX)]
                  /\ wpc' = [wpc EXCEPT ![w] = "submit"]
                  /\ owned' = [owned EXCEPT ![w] = @ \ Range(Pubkeys(v.invalid))]
                  /\ jitOk' = [jitOk EXCEPT ![w] =
                                 {a \in Range(Pubkeys(candidates[w])) : SafeToReclaim(chain[a])}]
                  /\ candidates' = [candidates EXCEPT ![w] = <<>>]
                  /\ UNCHANGED result
    /\ UNCHANGED <<chain, chainSteps, txlog, stageVars, wdry, lostReports, startedAfter>>

\* The chain executes the transfers of a transaction all or nothing.
CanTransfer(ch, accounts) ==
    \A i \in 1..Len(accounts) :
        LET info == ch[accounts[i].account_pubkey]
        IN /\ info.exists
           /\ info.owner = SYSTEM_PROGRAM_ID
           /\ info.lamports >= accounts[i].verifiedLamports

\* What sendAndConfirmTransaction throws: the chain refuses the transfers, or
\* the transaction is not confirmed in time.
SendError(ch, accounts) ==
    IF CanTransfer(ch, accounts) THEN "Blockhash not found" ELSE "insufficient lamports"

Transfer(ch, accounts) ==
    [a \in DOMAIN ch |->
        IF \E i \in 1..Len(accounts) : accounts[i].account_pubkey = a
        THEN LET i == CHOOSE i \in 1..Len(accounts) : accounts[i].account_pubkey = a
             IN [ch[a] EXCEPT !.lamports = @ - accounts[i].verifiedLamports]
        ELSE ch[a]]

TxRecord(w, batch, signature, confirmed) ==
    [worker |-> w, signature |-> signature, confirmed |-> confirmed,
     accounts |-> {batch[i].account_pubkey : i \in 1..Len(batch)},
     seenOk |-> jitOk[w]]

\* An executeBatch that sends the transaction in dry-run too.
WorkerSimulate_Submits(w) ==
    /\ UNCHANGED sideVars
    /\ wpc[w] = "submit"
    /\ wdry[w]
    /\ CanTransfer(chain, Head(batches[w]))
    /\ chain' = Transfer(chain, Head(batches[w]))
    /\ txlog' = Append(txlog, TxRecord(w, Head(batches[w]), Len(txlog) + 1, TRUE))
    /\ result' = [result EXCEPT ![w] =
                    [success |-> TRUE, signature |-> DRY_RUN_SIGNATURE,
                     lamportsRecovered |-> SumVerified(Head(batches[w])),
                     error |-> NULL]]
    /\ wpc' = [wpc EXCEPT ![w] = "report"]
    /\ UNCHANGED <<ledgerVars, chainSteps, deposits, stageVars, wdry, candidates,
                   batches, jitOk, owned, lostReports, startedAfter>>

\* executeBatch in dry-run: no transaction is built.
WorkerSimulate(w) ==
    /\ UNCHANGED sideVars
    /\ wpc[w] = "submit"
    /\ wdry[w]
    /\ result' = [result EXCEPT ![w] =
                    [success |-> TRUE, signature |-> DRY_RUN_SIGNATURE,
                     lamportsRecovered |-> SumVerified(Head(batches[w])),
                     error |-> NULL]]
    /\ wpc' = [wpc EXCEPT ![w] = "report"]
    /\ UNCHANGED <<ledgerVars, chainVars, stageVars, wdry, candidates, batches,
                   jitOk, owned, lostReports, startedAfter>>

\* executeBatch, live: the transaction is signed and sent, and confirmed.
WorkerSubmitConfirmed(w) ==
    /\ UNCHANGED sideVars
    /\ wpc[w] = "submit"
    /\ ~wdry[w]
    /\ CanTransfer(chain, Head(batches[w]))
    /\ chain' = Transfer(chain, Head(batches[w]))
    /\ txlog' = Append(txlog, TxRecord(w, Head(batches[w]), Len(txlog) + 1, TRUE))
    /\ result' = [result EXCEPT ![w] =
                    [success |-> TRUE, signature |-> Len(txlog) + 1,
                     lamportsRecovered |-> SumVerified(Head(batches[w])),
                     error |-> NULL]]
    /\ wpc' = [wpc EXCEPT ![w] = "report"]
    /\ UNCHANGED <<ledgerVars, chainSteps, deposits, stageVars, wdry, candidates,
                   batches, jitOk, owned, lostReports, startedAfter>>

\* executeBatch, live: sendAndConfirmTransaction throws.
WorkerSubmitRejected(w) ==
    /\ UNCHANGED sideVars
    /\ wpc[w] = "submit"
    /\ ~wdry[w]
    /\ txlog' = Append(txlog, TxRecord(w, Head(batches[w]), Len(txlog) + 1, FALSE))
    /\ result' = [result EXCEPT ![w] =
                    [NoResult EXCEPT !.error = SendError(chain, Head(batches[w]))]]
    /\ wpc' = [wpc EXCEPT ![w] = "report"]
    /\ UNCHANGED <<ledgerVars, chain, chainSteps, deposits, stageVars, wdry,
                   candidates, batches, jitOk, owned, lostReports, startedAfter>>

\* The block after executeBatch: report the batch, then the next batch or
\* the top of the loop.
WorkerReport(w) ==
    /\ UNCHANGED sideVars
    /\ wpc[w] = "report"
    /\ LET batch == Head(batches[w])
           db0 == [tbl |-> sponsored_accounts, evs |-> lifecycle_events]
           db == IF result[w].success
                 THEN recordSuccess(db0, Pubkeys(batch), result[w].signature,
                                    result[w].lamportsRecovered)
                 ELSE recordFailure(db0, Pubkeys(batch), OrUnknownError(result[w].error))
       IN /\ batches' = [batches EXCEPT ![w] = Tail(@)]
          /\ IF Tail(batches[w]) # <<>>
             THEN /\ sponsored_accounts' = db.tbl
                  /\ lifecycle_events' = db.evs
                  /\ wpc' = [wpc EXCEPT ![w] = "submit"]
                  /\ owned' = [owned EXCEPT ![w] = @ \ Range(Pubkeys(batch))]
                  /\ UNCHANGED <<candidates, result, jitOk>>
             ELSE LoopTop(w, db, Range(Pubkeys(batch)))
    /\ UNCHANGED <<chainVars, stageVars, wdry, lostReports, startedAfter>>

\* The process dies while it waits for the chain: nothing of it is left but
\* what it wrote to the ledger and to the chain.
WorkerCrash(w) ==
    /\ UNCHANGED sideVars
    /\ wpc[w] \in {"verify", "submit", "report"}
    /\ wpc' = [wpc EXCEPT ![w] = "crashed"]
    /\ candidates' = [candidates EXCEPT ![w] = <<>>]
    /\ batches' = [batches EXCEPT ![w] = <<>>]
    /\ result' = [result EXCEPT ![w] = NoResult]
    /\ jitOk' = [jitOk EXCEPT ![w] = {}]
    /\ lostReports' = IF wpc[w] = "report" /\ result[w].success /\ ~wdry[w]
                      THEN lostReports \cup {result[w].signature}
                      ELSE lostReports
    /\ UNCHANGED <<ledgerVars, chainVars, stageVars, wdry, owned, startedAfter>>

\* -------------------------------------------------------------------- chain
ConfirmedFor(a) == \E i \in 1..Len(txlog) : txlog[i].confirmed /\ a \in txlog[i].accounts

\* Anyone may pay into an address; the holder of an account's key may empty
\* it, hand it to a program or allocate data in it.
ChainDeposit(a) ==
    /\ UNCHANGED sideVars
    /\ chainSteps < MaxChainSteps
    /\ chain[a].lamports < MaxLamports
    /\ chain' = [chain EXCEPT ![a] = IF chain[a].exists
                                     THEN [chain[a] EXCEPT !.lamports = @ + 1]
                                     ELSE ChainInfo(1, SYSTEM_PROGRAM_ID, 0)]
    /\ deposits' = [deposits EXCEPT ![a] =
                      IF ConfirmedFor(a) THEN "afterConfirm"
                      ELSE IF @ = "none" THEN "afterVerify"
                      ELSE @]
    /\ chainSteps' = chainSteps + 1
    /\ UNCHANGED <<ledgerVars, txlog, stageVars, workerVars>>

ChainClose(a) ==
    /\ UNCHANGED sideVars
    /\ chainSteps < MaxChainSteps
    /\ chain[a].exists
    /\ chain' = [chain EXCEPT ![a] = Absent]
    /\ chainSteps' = chainSteps + 1
    /\ UNCHANGED <<ledgerVars, txlog, deposits, stageVars, workerVars>>

ChainAssign(a) ==
    /\ UNCHANGED sideVars
    /\ chainSteps < MaxChainSteps
    /\ chain[a].exists
    /\ chain[a].owner = SYSTEM_PROGRAM_ID
    /\ \E d \in {0, 1} :
          chain' = [chain EXCEPT ![a] = [@ EXCEPT !.owner = OTHER_PROGRAM_ID, !.dataLen = d]]
    /\ chainSteps' = chainSteps + 1
    /\ UNCHANGED <<ledgerVars, txlog, deposits, stageVars, workerVars>>

\* -------------------------------------------------------------- Attestation
\* Operator keypairs; NoKey is a call without a keypair.
OperatorKeys == {"k1", "k2"}
OperatorKeys_Forger == "k2"
NoKey == "none"

\* Keypair.publicKey, PublicKey.toBase58 and bs58.decode: the text of a key
\* is its name, the bytes carry it in a field.
PublicKeyOf(k) == [ed25519 |-> k]
toBase58(pk) == pk.ed25519
bs58decode(text) == [ed25519 |-> text]

\* SHA-256 is taken to be free of collisions: a digest stands for its input.
Sha256(input) == [sha256 |-> input]
NoDigest == Sha256(<<>>)

\* digest('hex'): the text of a digest; flip counts the characters of the
\* text that were altered afterwards.  EmptyText is the empty string.
toHex(digest) == [hex |-> digest, flip |-> 0]
EmptyText == [hex |-> NoDigest, flip |-> 0]
Truthy(text) == text # EmptyText

\* nacl.sign.detached: Ed25519 is deterministic, the signature is a function
\* of the message and the key; flip counts the bits altered afterwards.
SIGNATURE_LENGTH == 64
sign(msg, k) == [signer |-> PublicKeyOf(k), msg |-> msg, flip |-> 0, len |-> SIGNATURE_LENGTH]
NoBytes == [signer |-> PublicKeyOf(NoKey), msg |-> NoDigest, flip |-> 0, len |-> 0]

\* nacl.sign.detached.verify: throws on a signature of the wrong size, and
\* accepts only what the key's owner signed for this message.
detachedVerify(msg, sig, pk) ==
    IF sig.len # SIGNATURE_LENGTH THEN "throw"
    ELSE IF sig = [signer |-> pk, msg |-> msg, flip |-> 0, len |-> SIGNATURE_LENGTH]
         THEN "true"
    ELSE "false"

\* Buffer.from(sig).toString('base64') and Buffer.from(text, 'base64'): the
\* last character of the text of 64 bytes carries four bits that the decoder
\* drops; slack counts alterations of those bits.  kind tells a text from
\* the empty string and from undefined.
toBase64(bytes) == [kind |-> "text", data |-> bytes, slack |-> 0]
fromBase64(text) == text.data
Undefined == [kind |-> "undefined", data |-> NoBytes, slack |-> 0]
EmptyString == [kind |-> "empty", data |-> NoBytes, slack |-> 0]

\* Object.keys(obj).sort() on the accounts of a digest: an object keeps its
\* keys in the order of their insertion, canonicalize emits them sorted
\* (arrays keep their order).
RECURSIVE SortAccountKeys(_)
SortAccountKeys(entries) ==
    IF entries = <<>> THEN <<>>
    ELSE LET m == CHOOSE i \in 1..Len(entries) :
                    \A j \in 1..Len(entries) :
                       Rank(entries[i].pubkey) <= Rank(entries[j].pubkey)
             rest == [k \in 1..(Len(entries) - 1) |->
                        IF k < m THEN entries[k] ELSE entries[k + 1]]
         IN <<entries[m]>> \o SortAccountKeys(rest)

canonicalize(resultDigest) == [resultDigest EXCEPT !.accounts = SortAccountKeys(@)]

\* JSON.stringify(canonicalize(value)): the keys are emitted in sorted
\* order, so the text is a function of the value alone.
stringifyManifest(manifest) == [json |-> manifest]
\* JSON.stringify(result) without canonicalize.
stringifyResult_Raw(resultDigest) == [json |-> resultDigest]
stringifyResult(resultDigest) == [json |-> canonicalize(resultDigest)]

\* StateHasher.hashTable over the rows in the order of the query.
hashTable(tableName, rows) ==
    IF rows = <<>> THEN toHex(Sha256(<<[json |-> <<tableName, "empty">>]>>))
    ELSE toHex(Sha256([i \in 1..Len(rows) |-> Sha256([json |-> rows[i]])]))

\* computeStateHash without ORDER BY account_pubkey.
computeStateHash_AsStored(tbl, evs) ==
    toHex(Sha256(<<hashTable("sponsored_accounts", tbl),
                   hashTable("lifecycle_events", evs)>>))

\* StateHasher.computeStateHash: accounts by pubkey, events by id.
computeStateHash(tbl, evs) ==
    toHex(Sha256(<<hashTable("sponsored_accounts", SortByPubkey(tbl)),
                   hashTable("lifecycle_events", evs)>>))

\* Array.prototype.sort on the signatures.
RECURSIVE SortSignatures(_)
SortSignatures(sigs) ==
    IF sigs = <<>> THEN <<>>
    ELSE LET m == CHOOSE i \in 1..Len(sigs) : \A j \in 1..Len(sigs) : sigs[i] <= sigs[j]
             rest == [k \in 1..(Len(sigs) - 1) |-> IF k < m THEN sigs[k] ELSE sigs[k + 1]]
         IN <<sigs[m]>> \o SortSignatures(rest)

\* sort((a, b) => a.pubkey.localeCompare(b.pubkey)) on the failures.
RECURSIVE SortFailures(_)
SortFailures(fs) ==
    IF fs = <<>> THEN <<>>
    ELSE LET m == CHOOSE i \in 1..Len(fs) :
                    \A j \in 1..Len(fs) : Rank(fs[i].pubkey) <= Rank(fs[j].pubkey)
             rest == [k \in 1..(Len(fs) - 1) |-> IF k < m THEN fs[k] ELSE fs[k + 1]]
         IN <<fs[m]>> \o SortFailures(rest)

\* .get() of the SELECT on lifecycle_events: the first row that matches, or
\* NoEvent.
NoEvent == Event(NULL, NULL, NULL, NULL, NoEvidence)
FirstEvent(evs, pubkey, newState) ==
    LET Test(e) == e.account_pubkey = pubkey /\ e.new_state = newState
        hits == SelectSeq(evs, Test)
    IN IF hits = <<>> THEN NoEvent ELSE hits[1]

\* The loop of AttestationService.generate over the rows, then
\* ResultBuilder.build.
EmptyBuilder == [accounts |-> <<>>, totalLamports |-> 0, signatures |-> <<>>,
                 failures |-> <<>>]

RECURSIVE ScanAccounts(_, _, _)
ScanAccounts(rows, evs, b) ==
    IF rows = <<>> THEN b
    ELSE LET row == Head(rows)
             event == FirstEvent(evs, row.account_pubkey, "RECLAIMED")
             payload == event.evidence_payload
             hasPayload == event # NoEvent /\ payload # NoEvidence
             reclaimedAmt == IF hasPayload /\ payload.amount # NULL_INT /\ payload.amount # 0
                             THEN payload.amount ELSE 0
             sigs == IF hasPayload /\ payload.signature # NULL_INT
                     THEN Append(b.signatures, payload.signature) ELSE b.signatures
             failEvent == FirstEvent(evs, row.account_pubkey, "FAILED")
             fails == IF row.lifecycle_state = "FAILED"
                      THEN Append(b.failures,
                                  [pubkey |-> row.account_pubkey,
                                   reason |-> IF failEvent = NoEvent THEN "Unknown error"
                                              ELSE failEvent.trigger_reason])
                      ELSE b.failures
         IN ScanAccounts(Tail(rows), evs,
                [accounts |-> Append(b.accounts, [pubkey |-> row.account_pubkey,
                                                  state |-> row.lifecycle_state]),
                 totalLamports |-> b.totalLamports + reclaimedAmt,
                 signatures |-> sigs,
                 failures |-> fails])

ResultBuild(b) ==
    [evaluated_count |-> Cardinality({b.accounts[i].pubkey : i \in 1..Len(b.accounts)}),
     accounts |-> b.accounts,
     total_lamports_reclaimed |-> [decimal |-> b.totalLamports],
     transaction_signatures |-> SortSignatures(b.signatures),
     failures |-> SortFailures(b.failures)]

\* ManifestBuilder.sanitizeRpc: scheme and host of a URL, or 'unknown-rpc'.
sanitizeRpc(url) == IF url.valid THEN [origin |-> url.origin] ELSE [origin |-> "unknown-rpc"]

\* x || 0 on a number that may be undefined.
OrZero(x) == IF x = NULL_INT THEN 0 ELSE x

\* Array.from(new Set(keys)).sort().
RECURSIVE SortKeySet(_)
SortKeySet(keys) ==
    IF keys = {} THEN <<>>
    ELSE LET k == CHOOSE x \in keys : \A y \in keys : Rank(x) <= Rank(y)
         IN <<k>> \o SortKeySet(keys \ {k})

SortedUnique(keys) == SortKeySet(Range(keys))

\* ManifestBuilder.build.
ManifestBuild(network, config, operatorPubkey, rpcEndpoint, dbStateHash, candidateKeys) ==
    [version |-> "1.0.0",
     network |-> network,
     operator_pubkey |-> operatorPubkey,
     config |-> [min_lamports |-> OrZero(config.MIN_LAMPORTS_RECLAIM),
                 min_age_days |-> OrZero(config.MIN_AGE_DAYS),
                 whitelist_hash |-> NULL],
     rpc_endpoint |-> sanitizeRpc(rpcEndpoint),
     db_state_hash |-> dbStateHash,
     candidates |-> SortedUnique(candidateKeys)]

\* A generate that leaves the state hash out of the attestation hash.
AttestorGenerate_NoDbHash(manifest, resultDigest, operatorKeypair) ==
    LET attestationHashBytes == Sha256(<<stringifyManifest(manifest),
                                         stringifyResult(resultDigest)>>)
    IN [manifest |-> manifest,
        db_state_hash |-> manifest.db_state_hash,
        result_digest |-> resultDigest,
        attestation_hash |-> toHex(attestationHashBytes),
        signature |-> IF operatorKeypair # NoKey
                      THEN toBase64(sign(attestationHashBytes, operatorKeypair))
                      ELSE Undefined]

\* Attestor.generate.
AttestorGenerate(manifest, resultDigest, operatorKeypair) ==
    LET dbHash == manifest.db_state_hash
        attestationHashBytes == Sha256(<<stringifyManifest(manifest), dbHash,
                                         stringifyResult(resultDigest)>>)
    IN [manifest |-> manifest,
        db_state_hash |-> dbHash,
        result_digest |-> resultDigest,
        attestation_hash |-> toHex(attestationHashBytes),
        signature |-> IF operatorKeypair # NoKey
                      THEN toBase64(sign(attestationHashBytes, operatorKeypair))
                      ELSE Undefined]

\* A verify that never looks at the signature.
AttestorVerify_SkipSignature(d) ==
    LET hashBytes == Sha256(<<stringifyManifest(d.manifest), d.db_state_hash,
                              stringifyResult(d.result_digest)>>)
    IN IF toHex(hashBytes) # d.attestation_hash THEN FALSE
       ELSE IF Truthy(d.manifest.db_state_hash)
               /\ d.manifest.db_state_hash # d.db_state_hash THEN FALSE
       ELSE TRUE

\* Attestor.verify.
AttestorVerify(d) ==
    LET computedHashBytes == Sha256(<<stringifyManifest(d.manifest), d.db_state_hash,
                                      stringifyResult(d.result_digest)>>)
    IN IF toHex(computedHashBytes) # d.attestation_hash THEN FALSE
       ELSE IF Truthy(d.manifest.db_state_hash)
               /\ d.manifest.db_state_hash # d.db_state_hash THEN FALSE
       ELSE IF d.signature.kind = "text" /\ d.manifest.operator_pubkey # NULL
            THEN detachedVerify(computedHashBytes, fromBase64(d.signature),
                                bs58decode(d.manifest.operator_pubkey)) = "true"
       ELSE TRUE

\* AttestationService.generate on the ledger.
AttestationServiceGenerate(tbl, evs, network, config, operatorKeypair, rpcEndpoint) ==
    LET dbHash == computeStateHash(tbl, evs)
        resultDigest == ResultBuild(ScanAccounts(tbl, evs, EmptyBuilder))
        manifest == ManifestBuild(network, config,
                                  IF operatorKeypair # NoKey
                                  THEN toBase58(PublicKeyOf(operatorKeypair)) ELSE NULL,
                                  rpcEndpoint, dbHash, Pubkeys(tbl))
    IN AttestorGenerate(manifest, resultDigest, operatorKeypair)

\* The inputs of a run besides the ledger and the key.
AttestInputs ==
    [network : {"devnet"},
     config : [MIN_LAMPORTS_RECLAIM : {NULL_INT, 1}, MIN_AGE_DAYS : {NULL_INT},
               min_lamports : {NULL_INT, 1000}],
     rpcEndpoint : {[valid |-> FALSE, origin |-> "unknown"],
                    [valid |-> TRUE, origin |-> "https://api.devnet.solana.com"]}]

NoInputs == [network |-> "devnet",
             config |-> [MIN_LAMPORTS_RECLAIM |-> NULL_INT, MIN_AGE_DAYS |-> NULL_INT,
                         min_lamports |-> NULL_INT],
             rpcEndpoint |-> [valid |-> FALSE, origin |-> "unknown"]]

\* No document has been generated yet.
NoDoc == <<>>

AttIdle == apc = "idle" /\ akey = NoKey /\ aconfig = NoInputs /\ doc = NoDoc

\* attest generate: one synchronous call.
AttestGenerate ==
    /\ apc = "start"
    /\ doc' = AttestationServiceGenerate(sponsored_accounts, lifecycle_events,
                                        aconfig.network, aconfig.config, akey,
                                        aconfig.rpcEndpoint)
    /\ apc' = "generated"
    /\ UNCHANGED <<akey, aconfig, pipelineVars, stmt, idxVars, polVars>>

\* The documents that differ from d in the named field alone.
Tampered(d, field) ==
    CASE field = "manifest" ->
            {[d EXCEPT !.manifest.network = "mainnet-beta"],
             [d EXCEPT !.manifest.config.min_lamports = @ + 1],
             [d EXCEPT !.manifest.operator_pubkey = NULL],
             [d EXCEPT !.manifest.db_state_hash.flip = 1],
             [d EXCEPT !.manifest.candidates = <<>>]}
      [] field = "db_state_hash" -> {[d EXCEPT !.db_state_hash.flip = 1]}
      [] field = "result_digest" ->
            {[d EXCEPT !.result_digest.total_lamports_reclaimed.decimal = @ + 1],
             [d EXCEPT !.result_digest.evaluated_count = @ + 1],
             [d EXCEPT !.result_digest.failures = <<>>],
             [d EXCEPT !.result_digest.transaction_signatures = <<>>]}
      [] field = "attestation_hash" -> {[d EXCEPT !.attestation_hash.flip = 1]}
      [] field = "signature" ->
            {[d EXCEPT !.signature.data.flip = 1],
             [d EXCEPT !.signature.slack = 1],
             [d EXCEPT !.signature.data.len = SIGNATURE_LENGTH + 1],
             [d EXCEPT !.signature = EmptyString]}

DocFields == {"manifest", "db_state_hash", "result_digest", "attestation_hash", "signature"}

\* Someone alters one field of the document before it is verified.
AttestTamper ==
    /\ apc = "generated"
    /\ \E field \in DocFields : \E d \in Tampered(doc, field) :
          /\ d # doc
          /\ doc' = d
          /\ apc' = field
    /\ UNCHANGED <<akey, aconfig, pipelineVars, stmt, idxVars, polVars>>

\* The hash bytes verify recomputes from a document.
computedHashBytes(d) ==
    Sha256(<<stringifyManifest(d.manifest), d.db_state_hash,
             stringifyResult(d.result_digest)>>)

\* The documents someone can hand to verify in place of d: the two state
\* hashes and operator_pubkey set at will, the hash recomputed over the
\* result or left as it was, the signature kept, dropped, emptied, made
\* with a key of the forger over the new hash, or of a wrong size.
Forged(d) ==
    LET hashes == {d.db_state_hash, [d.db_state_hash EXCEPT !.flip = 1], EmptyText}
        bodies == {[d EXCEPT !.manifest.db_state_hash = m, !.db_state_hash = t,
                             !.manifest.operator_pubkey = pk] :
                      m \in hashes, t \in hashes \ {EmptyText},
                      pk \in {d.manifest.operator_pubkey, NULL}}
        Signatures(b) == {d.signature, Undefined, EmptyString,
                          toBase64(sign(computedHashBytes(b), OperatorKeys_Forger)),
                          toBase64([sign(computedHashBytes(b), OperatorKeys_Forger)
                                       EXCEPT !.len = SIGNATURE_LENGTH + 1])}
    IN UNION {{[b EXCEPT !.attestation_hash = h, !.signature = sg] :
                  h \in {d.attestation_hash, toHex(computedHashBytes(b))},
                  sg \in Signatures(b)} : b \in bodies}

\* Someone builds a document from the generated one and hands it to verify.
AttestForge ==
    /\ apc = "generated"
    /\ \E d \in Forged(doc) :
          /\ doc' = d
          /\ apc' = "forged"
    /\ UNCHANGED <<akey, aconfig, pipelineVars, stmt, idxVars, polVars>>

\* ------------------------------------------------- statements and processes
\* No process is between the UPDATE of a row and the INSERT of its event.
NoStmt == <<>>
StmtIdle == stmt = NoStmt

\* The stages statement by statement: a statement outside db.transaction()
\* commits by itself, so a process can stop between the UPDATE of a row and
\* the INSERT of the event.  One stage runs at a time here.

\* LifecycleEngine: scan, the RPC answer and updateAccountData for account a;
\* recordEvent is the statement that follows if the label changed.
StmtLifecycleUpdate(a) ==
    /\ stmt = NoStmt
    /\ runs < MaxStageRuns
    /\ a \in Keys(sponsored_accounts)
    /\ LET currentState == RowOf(sponsored_accounts, a).lifecycle_state
           info == chain[a]
           newState == LifecycleLabel(info)
       IN /\ sponsored_accounts' =
                updateAccountData(sponsored_accounts, a, newState, info, FALSE, Today)
          /\ stmt' = IF newState # currentState
                     THEN <<Event(a, currentState, newState,
                                  LifecycleReason(currentState, info), NoEvidence)>>
                     ELSE NoStmt
    /\ runs' = runs + 1
    /\ UNCHANGED <<lifecycle_events, chainVars, lifecycleVars, workerVars,
                   attVars, idxVars, polVars>>

\* The candidates of evaluate() that updateState is called for.
PolicyTransitions(tbl, config) ==
    LET Moves(r) == /\ checkEligibility(r, config, Today, UTC) # NoDecision
                    /\ checkEligibility(r, config, Today, UTC) # r.lifecycle_state
    IN SelectSeq(PolicyCandidates(tbl), Moves)

\* PolicyEngine.updateState, first statement, for the first candidate that
\* moves.
StmtPolicyUpdate(config) ==
    /\ stmt = NoStmt
    /\ runs < MaxStageRuns
    /\ ~config.dryRun
    /\ PolicyTransitions(sponsored_accounts, config) # <<>>
    /\ LET account == Head(PolicyTransitions(sponsored_accounts, config))
           decision == checkEligibility(account, config, Today, UTC)
           set == [lifecycle_state |-> decision]
       IN /\ sponsored_accounts' = UpdateRow(sponsored_accounts, account.account_pubkey, set)
          /\ stmt' = <<Event(account.account_pubkey, account.lifecycle_state, decision,
                             PolicyReason(account, config, Today), NoEvidence)>>
    /\ runs' = runs + 1
    /\ UNCHANGED <<lifecycle_events, chainVars, lifecycleVars, workerVars,
                   attVars, idxVars, polVars>>

\* A Reclaimer worker up to the first statement of recordSkip for the first
\* account its JIT check rejects.
StmtSkipUpdate(w) ==
    /\ stmt = NoStmt
    /\ runs < MaxStageRuns
    /\ LET f == fetchAndLock(sponsored_accounts, batchSize, w)
           v == verify(f.candidates, chain)
       IN /\ v.invalid # <<>>
          /\ LET inv == Head(v.invalid)
                 set == [lifecycle_state |-> inv.status, processing_lock |-> NULL]
             IN /\ sponsored_accounts' = UpdateRow(f.tbl, inv.account_pubkey, set)
                /\ stmt' = <<Event(inv.account_pubkey, "RECLAIMABLE", inv.status,
                                   inv.reason, NoEvidence)>>
    /\ runs' = runs + 1
    /\ UNCHANGED <<lifecycle_events, chainVars, lifecycleVars, workerVars,
                   attVars, idxVars, polVars>>

\* The statement that follows the UPDATE: INSERT INTO lifecycle_events.
StmtInsert ==
    /\ stmt # NoStmt
    /\ lifecycle_events' = Append(lifecycle_events, stmt[1])
    /\ stmt' = NoStmt
    /\ UNCHANGED <<sponsored_accounts, chainVars, stageVars, workerVars,
                   attVars, idxVars, polVars>>

\* The process stops (crash, kill, Ctrl-C) before that statement.
StmtStop ==
    /\ stmt # NoStmt
    /\ stmt' = NoStmt
    /\ UNCHANGED <<ledgerVars, chainVars, stageVars, workerVars,
                   attVars, idxVars, polVars>>

\* ------------------------------------------------------- the Indexer's runs
\* A signature is the position of its transaction in the history; no
\* signature (undefined, no cursor row) is 0.
NoSignature == 0

\* The page size of getSignaturesForAddress (100 in the source), scaled to
\* the histories of the model, and the longest history.
SIGNATURE_FETCH_LIMIT == 2
MaxHistory == 4

IndexedAccts == Range(AcctSeq)
Parties == {"operator", "other"}

\* A transaction the operator signed: its fee payer, and the createAccount
\* instruction in it (from, newAccount), if any.
NoCreate == [feePayer |-> "operator", from |-> NULL, newAccount |-> NULL]
CreateTx(payer, a) == [feePayer |-> payer, from |-> "operator", newAccount |-> a]
Transactions == {NoCreate} \cup {CreateTx(p, a) : p \in Parties, a \in IndexedAccts}

\* parseTransaction: the account to store, or NULL.
parseTransaction(tx) ==
    IF tx.feePayer # "operator" THEN NULL
    ELSE IF tx.newAccount # NULL /\ tx.from = "operator" THEN tx.newAccount
    ELSE NULL

\* getSignaturesForAddress(operator, {limit, until, before}): newest first,
\* older than before, newer than until, at most limit.
getSignaturesForAddress(hist, limit, until, before) ==
    LET top == IF before = NoSignature THEN Len(hist) ELSE before - 1
        n == IF top - until < 0 THEN 0
             ELSE IF top - until < limit THEN top - until ELSE limit
    IN [k \in 1..n |-> top - k + 1]

\* getCursor and saveCursor on system_kv_store.
getCursor(kv) == kv
saveCursor(kv, signature, dryRun) == IF dryRun THEN kv ELSE signature

IndexerRunning == ipc \in {"fetch", "parse", "save"}

\* run() up to its first await: getCursor, then getSignaturesForAddress.
IndexerRun ==
    /\ ~IndexerRunning
    /\ untilSignature' = getCursor(cursor)
    /\ beforeSignature' = NoSignature
    /\ latestInBatch' = NoSignature
    /\ signatures' = <<>>
    /\ firstLatest' = NoSignature
    /\ seenLen' = Len(history)
    /\ rerun' = quiet
    /\ ipc' = "fetch"
    /\ UNCHANGED <<history, cursor, quiet, pipelineVars, attVars, stmt, polVars>>

\* The answer of getSignaturesForAddress: an empty page ends the run,
\* otherwise the first getParsedTransaction is called.
IndexerFetch ==
    /\ ipc = "fetch"
    /\ LET page == getSignaturesForAddress(history, SIGNATURE_FETCH_LIMIT,
                                           untilSignature, beforeSignature)
       IN IF page = <<>>
          THEN /\ ipc' = "completed"
               /\ quiet' = (Len(history) = seenLen)
               /\ beforeSignature' = NoSignature
               /\ firstLatest' = NoSignature
               /\ UNCHANGED <<latestInBatch, signatures>>
          ELSE /\ ipc' = "parse"
               /\ latestInBatch' = page[1]
               /\ beforeSignature' = page[Len(page)]
               /\ signatures' = page
               /\ firstLatest' = IF firstLatest = NoSignature THEN page[1] ELSE firstLatest
               /\ UNCHANGED quiet
    /\ UNCHANGED <<history, cursor, untilSignature, seenLen, rerun,
                   pipelineVars, attVars, stmt, polVars>>

\* The answer of getParsedTransaction for the next signature of the page:
\* parseTransaction, storeSponsoredAccount, then the sleep.
IndexerParse ==
    /\ ipc = "parse"
    /\ LET tx == history[Head(signatures)]
           newAccount == parseTransaction(tx)
       IN sponsored_accounts' =
             IF newAccount = NULL THEN sponsored_accounts
             ELSE storeSponsoredAccount(sponsored_accounts, newAccount, FALSE)
    /\ signatures' = Tail(signatures)
    /\ ipc' = IF Tail(signatures) = <<>> THEN "save" ELSE "parse"
    /\ UNCHANGED <<lifecycle_events, chainVars, stageVars, workerVars, attVars, stmt, polVars,
                   history, cursor, untilSignature, beforeSignature, latestInBatch,
                   firstLatest, seenLen, quiet, rerun>>

\* After the last sleep of a page: if (!untilSignature) saveCursor, then
\* the next getSignaturesForAddress.
IndexerSave ==
    /\ ipc = "save"
    /\ cursor' = IF untilSignature = NoSignature
                 THEN saveCursor(cursor, latestInBatch, FALSE)
                 ELSE cursor
    /\ latestInBatch' = NoSignature
    /\ ipc' = "fetch"
    /\ UNCHANGED <<history, untilSignature, beforeSignature, signatures, firstLatest,
                   seenLen, quiet, rerun, pipelineVars, attVars, stmt, polVars>>

\* An RPC call of the run throws: the catch block ends the loop.
IndexerRpcError ==
    /\ ipc \in {"fetch", "parse"}
    /\ ipc' = "failed"
    /\ beforeSignature' = NoSignature
    /\ latestInBatch' = NoSignature
    /\ signatures' = <<>>
    /\ firstLatest' = NoSignature
    /\ seenLen' = 0
    /\ rerun' = FALSE
    /\ UNCHANGED <<history, cursor, untilSignature, quiet, pipelineVars, attVars, stmt, polVars>>

\* The process dies at one of its awaits.
IndexerCrash ==
    /\ IndexerRunning
    /\ ipc' = "crashed"
    /\ untilSignature' = NoSignature
    /\ beforeSignature' = NoSignature
    /\ latestInBatch' = NoSignature
    /\ signatures' = <<>>
    /\ firstLatest' = NoSignature
    /\ seenLen' = 0
    /\ rerun' = FALSE
    /\ UNCHANGED <<history, cursor, quiet, pipelineVars, attVars, stmt, polVars>>

\* The operator signs one more transaction; an account is created once.
OperatorTransaction(tx) ==
    /\ Len(history) < MaxHistory
    /\ tx.newAccount # NULL =>
          \A i \in 1..Len(history) : history[i].newAccount # tx.newAccount
    /\ history' = Append(history, tx)
    /\ quiet' = FALSE
    /\ rerun' = FALSE
    /\ UNCHANGED <<cursor, ipc, untilSignature, beforeSignature, latestInBatch,
                   signatures, firstLatest, seenLen, pipelineVars, attVars, stmt, polVars>>

IndexerIdle ==
    /\ history = <<>>
    /\ cursor = NoSignature
    /\ ipc = "idle"
    /\ untilSignature = NoSignature
    /\ beforeSignature = NoSignature
    /\ latestInBatch = NoSignature
    /\ signatures = <<>>
    /\ firstLatest = NoSignature
    /\ seenLen = 0
    /\ quiet = FALSE
    /\ rerun = FALSE

\* ------------------------------------------------------------ a Policy run
NoConfig == [dryRun |-> FALSE, minLamports |-> 0, minAgeDays |-> 0, whitelist |-> {}]
\* The pipeline above runs at one instant on a host in UTC.
PolicyIdle ==
    /\ ptz = UTC
    /\ pnow = Today
    /\ batchSize = BATCH_SIZE
    /\ audit_log = <<>>
    /\ planner = NoPlan

MaxClock == 3
PolicyRunConfigs ==
    [dryRun : BOOLEAN, minLamports : {0, MaxLamports}, minAgeDays : {0, 1},
     whitelist : {{}, {AcctSeq[1]}}]

\* Time passes on the host.
ClockTick ==
    /\ pnow < MaxClock
    /\ pnow' = pnow + 1
    /\ UNCHANGED <<ptz, batchSize, audit_log, planner, pipelineVars, attVars, stmt, idxVars>>

\* evaluate() on the host's clock and zone, whether or not a row changes.
PolicyRun(config) ==
    /\ runs < MaxStageRuns
    /\ runs' = runs + 1
    /\ LET db == PolicyLoop(PolicyCandidates(sponsored_accounts), config, pnow, ptz,
                            [tbl |-> sponsored_accounts, evs |-> lifecycle_events])
       IN /\ sponsored_accounts' = db.tbl
          /\ lifecycle_events' = db.evs
    /\ UNCHANGED <<chainVars, lifecycleVars, workerVars, sideVars>>

\* ------------------------------------------------------------ specification
vars == <<sponsored_accounts, lifecycle_events, chain, chainSteps, txlog, deposits,
          runs, lpc, laccounts, linfos, li,
          wpc, wdry, candidates, batches, result, jitOk, owned, lostReports, startedAfter,
          apc, akey, aconfig, doc, stmt,
          history, cursor, ipc, untilSignature, beforeSignature, latestInBatch,
          signatures, firstLatest, seenLen, quiet, rerun,
          ptz, pnow, batchSize, audit_log, planner>>

\* No stage has run.
StagesIdle ==
    /\ chainSteps = 0
    /\ txlog = <<>>
    /\ runs = 0
    /\ lpc = "idle"
    /\ laccounts = <<>> /\ linfos = <<>> /\ li = 1
    /\ wpc = [w \in Workers |-> "idle"]
    /\ wdry = [w \in Workers |-> FALSE]
    /\ candidates = [w \in Workers |-> <<>>]
    /\ batches = [w \in Workers |-> <<>>]
    /\ result = [w \in Workers |-> NoResult]
    /\ jitOk = [w \in Workers |-> {}]
    /\ owned = [w \in Workers |-> {}]
    /\ lostReports = {}
    /\ startedAfter = [w \in Workers |-> {}]

\* No stage has run, the chain holds the accounts as they were created.
PipelineIdle ==
    /\ chain \in [Accts -> InitInfos]
    /\ deposits = [a \in Accts |-> "unseen"]
    /\ StagesIdle

Init ==
    /\ sponsored_accounts = <<>>
    /\ lifecycle_events = <<>>
    /\ PipelineIdle
    /\ AttIdle
    /\ StmtIdle
    /\ IndexerIdle
    /\ PolicyIdle

Next ==
    \/ \E a \in Accts : IndexerStore(a, FALSE)
    \/ LifecycleScan
    \/ LifecycleEvaluate
    \/ \E c \in PolicyConfigs : PolicyEvaluate(c)
    \/ \E w \in Workers : WorkerStart(w, FALSE)
    \/ \E w \in Workers : WorkerVerify(w)
    \/ \E w \in Workers : WorkerSubmitConfirmed(w)
    \/ \E w \in Workers : WorkerSubmitRejected(w)
    \/ \E w \in Workers : WorkerReport(w)
    \/ \E w \in Workers : WorkerCrash(w)
    \/ \E a \in Accts : ChainDeposit(a)
    \/ \E a \in Accts : ChainClose(a)
    \/ \E a \in Accts : ChainAssign(a)

Spec == Init /\ [][Next]_vars

\* ------------------------------------------- the Attestation run on a ledger
\* What the pipeline left of an account: no row, a row Lifecycle has seen, a
\* row reclaimed by the Reclaimer pipeline or by the first Reclaimer, a row
\* whose transaction failed, a row whose transaction failed, that Policy
\* picked again, and whose next transaction failed with another error.
AttHistories ==
    {"absent", "ACTIVE", "RECLAIMED", "RECLAIMED_LEGACY", "FAILED", "FAILED_TWICE"}

LedgerRow(a, h) ==
    [account_pubkey |-> a,
     lifecycle_state |-> IF h = "RECLAIMED_LEGACY" THEN "RECLAIMED"
                         ELSE IF h = "FAILED_TWICE" THEN "FAILED" ELSE h,
     lamports |-> IF h \in {"RECLAIMED", "RECLAIMED_LEGACY"} THEN 0 ELSE 1,
     data_len |-> 0,
     owner_program |-> SYSTEM_PROGRAM_ID,
     last_lifecycle_check |-> Today,
     processing_lock |-> NULL]

LedgerEvents(a, h, signature, batchTotal) ==
    LET seen == <<Event(a, "DISCOVERED", "ACTIVE", "Account exists on-chain.", NoEvidence)>>
        picked == <<Event(a, "ACTIVE", "RECLAIMABLE",
                          "Policy: Passes all safety & eligibility rules", NoEvidence)>>
    IN CASE h = "absent" -> <<>>
         [] h = "ACTIVE" -> seen
         [] h = "RECLAIMABLE" -> seen \o picked
         [] h = "RECLAIMED" ->
               recordSuccess([tbl |-> <<>>, evs |-> seen \o picked], <<a>>, signature,
                             batchTotal).evs
         [] h = "RECLAIMED_LEGACY" ->
               seen \o picked \o
                  <<Event(a, "RECLAIMABLE", "RECLAIMED", "Reclamation Success",
                          [signature |-> signature, batchTotal |-> NULL_INT, amount |-> 1])>>
         [] h = "FAILED" ->
               recordFailure([tbl |-> <<>>, evs |-> seen \o picked], <<a>>,
                             "insufficient lamports").evs
         [] h = "FAILED_TWICE" ->
               LET first == recordFailure([tbl |-> <<>>, evs |-> seen \o picked], <<a>>,
                                          "insufficient lamports").evs
                   again == <<Event(a, "FAILED", "RECLAIMABLE",
                                    "Policy: Passes all safety & eligibility rules",
                                    NoEvidence)>>
               IN recordFailure([tbl |-> <<>>, evs |-> first \o again], <<a>>,
                                "Blockhash not found").evs

\* The ledger of the accounts with histories hs; sameTx puts the reclaimed
\* accounts into one transaction.
RECURSIVE LedgerOf(_, _, _)
LedgerOf(hs, sameTx, i) ==
    IF i > Len(AcctSeq) THEN [tbl |-> <<>>, evs |-> <<>>]
    ELSE LET rest == LedgerOf(hs, sameTx, i + 1)
             reclaimed == {j \in 1..Len(AcctSeq) : hs[j] \in {"RECLAIMED", "RECLAIMED_LEGACY"}}
         IN IF hs[i] = "absent" THEN rest
            ELSE [tbl |-> <<LedgerRow(AcctSeq[i], hs[i])>> \o rest.tbl,
                  evs |-> LedgerEvents(AcctSeq[i], hs[i], IF sameTx THEN 1 ELSE i,
                                       IF sameTx THEN Cardinality(reclaimed) ELSE 1)
                             \o rest.evs]

InitAttest ==
    /\ \E hs \in [1..Len(AcctSeq) -> AttHistories] : \E sameTx \in BOOLEAN :
          /\ sponsored_accounts = LedgerOf(hs, sameTx, 1).tbl
          /\ lifecycle_events = LedgerOf(hs, sameTx, 1).evs
    /\ PipelineIdle
    /\ apc = "start"
    /\ akey \in OperatorKeys \cup {NoKey}
    /\ aconfig \in AttestInputs
    /\ doc = NoDoc
    /\ StmtIdle
    /\ IndexerIdle
    /\ PolicyIdle

NextAttest ==
    \/ AttestGenerate
    \/ AttestTamper

SpecAttest == InitAttest /\ [][NextAttest]_vars

\* ------------------------------------ the other tables of the database file
MaxAudit == 2
LogLevels == {"INFO", "ERROR"}

\* AppDatabase.log: INSERT INTO audit_log (level, message, metadata).
DatabaseLog(level) ==
    /\ Len(audit_log) < MaxAudit
    /\ audit_log' = Append(audit_log, [id |-> Len(audit_log) + 1, level |-> level])
    /\ UNCHANGED <<ptz, pnow, batchSize, planner, pipelineVars, attVars, stmt, idxVars>>

\* saveCursor outside a run of the Indexer: INSERT OR REPLACE INTO system_kv_store.
CursorSave(signature) ==
    /\ cursor' = saveCursor(cursor, signature, FALSE)
    /\ cursor' # cursor
    /\ UNCHANGED <<history, ipc, untilSignature, beforeSignature, latestInBatch,
                   signatures, firstLatest, seenLen, quiet, rerun,
                   pipelineVars, attVars, stmt, polVars>>

\* attest generate on a database whose audit log and cursor are being written.
NextHasher ==
    \/ AttestGenerate
    \/ \E level \in LogLevels : DatabaseLog(level)
    \/ \E signature \in 1..MaxHistory : CursorSave(signature)

SpecHasher == InitAttest /\ [][NextHasher]_vars

\* ------------------------------------- Reclaimer workers on a picked ledger
\* What the chain can hold of an account by the time a worker asks.
WorkerInfos ==
    {Absent, ChainInfo(0, SYSTEM_PROGRAM_ID, 0), ChainInfo(1, SYSTEM_PROGRAM_ID, 0),
     ChainInfo(MaxLamports, SYSTEM_PROGRAM_ID, 0), ChainInfo(1, OTHER_PROGRAM_ID, 0),
     ChainInfo(1, SYSTEM_PROGRAM_ID, 1)}

\* Every account has been indexed, seen by Lifecycle and picked by Policy.
PickedLedger ==
    LedgerOf([i \in 1..Len(AcctSeq) |-> "RECLAIMABLE"], FALSE, 1)

InitWorkers ==
    /\ sponsored_accounts = PickedLedger.tbl
    /\ lifecycle_events = PickedLedger.evs
    /\ chain \in [IndexedAccts -> WorkerInfos]
    /\ deposits = [a \in IndexedAccts |-> "unseen"]
    /\ StagesIdle
    /\ AttIdle
    /\ StmtIdle
    /\ IndexerIdle
    /\ ptz = UTC
    /\ pnow = Today
    /\ batchSize \in {1, BATCH_SIZE}
    /\ audit_log = <<>>
    /\ planner = NoPlan

NextWorkers ==
    \/ \E w \in Workers : WorkerStart(w, FALSE)
    \/ \E w \in Workers : WorkerVerify(w)
    \/ \E w \in Workers : WorkerSubmitConfirmed(w)
    \/ \E w \in Workers : WorkerSubmitRejected(w)
    \/ \E w \in Workers : WorkerReport(w)
    \/ \E a \in IndexedAccts : ChainDeposit(a)
    \/ \E a \in IndexedAccts : ChainClose(a)
    \/ \E a \in IndexedAccts : ChainAssign(a)

SpecWorkers == InitWorkers /\ [][NextWorkers]_vars

\* ------------------------------------------ one Reclaimer run, to its return
\* What a lock column can hold before the run: nothing, the empty text, or
\* the id of a worker of an earlier run.
StaleLocks == {NULL, "", WorkerSeq[2]}
SingleInfos ==
    {Absent, ChainInfo(1, SYSTEM_PROGRAM_ID, 0), ChainInfo(1, OTHER_PROGRAM_ID, 0)}

\* Rows that Lifecycle has seen, some picked by Policy, some of those with a
\* lock left on them.
InitSingle ==
    /\ \E hs \in [1..Len(AcctSeq) -> {"ACTIVE", "RECLAIMABLE"}] :
       \E locks \in [1..Len(AcctSeq) -> StaleLocks] :
          /\ \A i \in 1..Len(AcctSeq) : hs[i] = "ACTIVE" => locks[i] = NULL
          /\ sponsored_accounts =
                [i \in 1..Len(AcctSeq) |->
                    [LedgerOf(hs, FALSE, 1).tbl[i] EXCEPT !.processing_lock = locks[i]]]
          /\ lifecycle_events = LedgerOf(hs, FALSE, 1).evs
    /\ chain \in [IndexedAccts -> SingleInfos]
    /\ deposits = [a \in IndexedAccts |-> "unseen"]
    /\ StagesIdle
    /\ AttIdle
    /\ StmtIdle
    /\ IndexerIdle
    /\ ptz = UTC
    /\ pnow = Today
    /\ batchSize \in {1, BATCH_SIZE}
    /\ audit_log = <<>>
    /\ planner = NoPlan

\* The steps of the one worker.
SingleWorkerStep ==
    \/ \E dryRun \in BOOLEAN : WorkerStart(WorkerSeq[1], dryRun)
    \/ WorkerVerify(WorkerSeq[1])
    \/ WorkerSubmitConfirmed(WorkerSeq[1])
    \/ WorkerSubmitRejected(WorkerSeq[1])
    \/ WorkerSimulate(WorkerSeq[1])
    \/ WorkerReport(WorkerSeq[1])

\* The worker and Lifecycle scans beside it; no Policy run.
MaxSingleScans == 1
SingleLifecycleScan == runs < MaxSingleScans /\ LifecycleScan

NextSingle ==
    \/ SingleWorkerStep
    \/ SingleLifecycleScan
    \/ LifecycleEvaluate

SpecSingle == InitSingle /\ [][NextSingle]_vars
\* Every await of execute() returns or throws into its catch.
SpecSingleFair == SpecSingle /\ WF_vars(SingleWorkerStep)

\* ------------------------------------------- one Lifecycle scan, by chunks
\* What an earlier run left of an account before this scan.
ScanHistories == {"DISCOVERED", "ACTIVE", "CLOSED", "RECLAIMABLE", "RECLAIMED"}
ScanInfos ==
    {Absent, ChainInfo(MaxLamports, SYSTEM_PROGRAM_ID, 0), ChainInfo(1, OTHER_PROGRAM_ID, 1)}

ScanRow(a, h) ==
    CASE h = "DISCOVERED" -> storeSponsoredAccount(<<>>, a, FALSE)[1]
      [] h = "CLOSED" ->
            updateAccountData(storeSponsoredAccount(<<>>, a, FALSE), a, "CLOSED", Absent,
                              FALSE, CURRENT_TIMESTAMP(Today))[1]
      [] OTHER -> LedgerRow(a, h)

ScanEvents(a, h, i) ==
    CASE h = "DISCOVERED" -> <<>>
      [] h = "CLOSED" ->
            <<Event(a, "DISCOVERED", "CLOSED", LifecycleReason("DISCOVERED", Absent),
                    NoEvidence)>>
      [] OTHER -> LedgerEvents(a, h, i, 1)

RECURSIVE ConcatAll(_)
ConcatAll(ss) == IF ss = <<>> THEN <<>> ELSE Head(ss) \o ConcatAll(Tail(ss))

\* The scan starts a day after the rows were last checked.
InitScan ==
    /\ \E hs \in [1..Len(AcctSeq) -> ScanHistories] :
          /\ sponsored_accounts = [i \in 1..Len(AcctSeq) |-> ScanRow(AcctSeq[i], hs[i])]
          /\ lifecycle_events =
                ConcatAll([i \in 1..Len(AcctSeq) |-> ScanEvents(AcctSeq[i], hs[i], i)])
    /\ chain \in [IndexedAccts -> ScanInfos]
    /\ deposits = [a \in IndexedAccts |-> "unseen"]
    /\ StagesIdle
    /\ AttIdle
    /\ StmtIdle
    /\ IndexerIdle
    /\ ptz = UTC
    /\ pnow = Today + 1
    /\ batchSize \in {1, BATCH_SIZE}
    /\ audit_log = <<>>
    /\ planner = NoPlan

\* LifecycleEngine.log, live: a row of audit_log.
LifecycleLog(al, level) == Append(al, [id |-> Len(al) + 1, level |-> level])

\* The last index of the chunk that holds index i: slice(i, i + batchSize).
ChunkEnd(i, size, n) ==
    LET end == (((i - 1) \div size) + 1) * size
    IN IF end < n THEN end ELSE n

\* Where the scan goes once the chunk of index i is over: the next chunk, or
\* the end of scan() with its closing log line.
ChunkOver(i, al) ==
    LET end == ChunkEnd(i, batchSize, Len(laccounts))
    IN IF end < Len(laccounts)
       THEN /\ lpc' = "chunk" /\ li' = end + 1 /\ audit_log' = al
       ELSE /\ lpc' = "done" /\ li' = end + 1 /\ audit_log' = LifecycleLog(al, "INFO")

\* scan() up to the first processBatch: the SELECT and two log lines.
ScanStart ==
    /\ lpc = "idle"
    /\ runs' = runs + 1
    /\ laccounts' = [i \in 1..Len(sponsored_accounts) |->
                        [account_pubkey |-> sponsored_accounts[i].account_pubkey,
                         lifecycle_state |-> sponsored_accounts[i].lifecycle_state]]
    /\ audit_log' = LifecycleLog(LifecycleLog(audit_log, "INFO"), "INFO")
    /\ li' = 1
    /\ lpc' = IF sponsored_accounts = <<>> THEN "done" ELSE "chunk"
    /\ UNCHANGED <<linfos, ledgerVars, chainVars, workerVars, attVars, stmt, idxVars,
                   ptz, pnow, batchSize, planner>>

\* processBatch: getMultipleAccountsInfo answers for the chunk.
ScanChunkInfos ==
    /\ lpc = "chunk"
    /\ linfos' = [i \in 1..Len(laccounts) |->
                     IF i \in li..ChunkEnd(li, batchSize, Len(laccounts))
                     THEN chain[laccounts[i].account_pubkey] ELSE Absent]
    /\ lpc' = "eval"
    /\ UNCHANGED <<runs, laccounts, li, ledgerVars, chainVars, workerVars, sideVars>>

\* processBatch: getMultipleAccountsInfo throws; the catch logs the error.
ScanChunkFails ==
    /\ lpc = "chunk"
    /\ ChunkOver(li, LifecycleLog(audit_log, "ERROR"))
    /\ UNCHANGED <<runs, laccounts, linfos, ledgerVars, chainVars, workerVars,
                   attVars, stmt, idxVars, ptz, pnow, batchSize, planner>>

\* evaluateAccount for the li-th account: the rent query answers, the
\* observation is persisted, a changed label is recorded and logged.
ScanEvaluate ==
    /\ lpc = "eval"
    /\ LET account == laccounts[li]
           info == linfos[li]
           currentState == account.lifecycle_state
           newState == LifecycleLabel(info)
           al == IF newState # currentState THEN LifecycleLog(audit_log, "INFO")
                 ELSE audit_log
       IN /\ sponsored_accounts' =
                updateAccountData(sponsored_accounts, account.account_pubkey,
                                  newState, info, FALSE, CURRENT_TIMESTAMP(pnow))
          /\ lifecycle_events' =
                IF newState # currentState
                THEN Append(lifecycle_events,
                            Event(account.account_pubkey, currentState, newState,
                                  LifecycleReason(currentState, info), NoEvidence))
                ELSE lifecycle_events
          /\ IF li = ChunkEnd(li, batchSize, Len(laccounts))
             THEN ChunkOver(li, al)
             ELSE lpc' = "eval" /\ li' = li + 1 /\ audit_log' = al
    /\ UNCHANGED <<runs, laccounts, linfos, chainVars, workerVars, attVars, stmt, idxVars,
                   ptz, pnow, batchSize, planner>>

\* evaluateAccount for the li-th account: getMinimumBalanceForRentExemption
\* throws, out of the loop of processBatch and into its catch.
ScanRentFails ==
    /\ lpc = "eval"
    /\ linfos[li].exists
    /\ ChunkOver(li, LifecycleLog(audit_log, "ERROR"))
    /\ UNCHANGED <<runs, laccounts, linfos, ledgerVars, chainVars, workerVars,
                   attVars, stmt, idxVars, ptz, pnow, batchSize, planner>>

NextScan ==
    \/ ScanStart
    \/ ScanChunkInfos
    \/ ScanChunkFails
    \/ ScanEvaluate
    \/ ScanRentFails

SpecScan == InitScan /\ [][NextScan]_vars

\* ------------------------------------------------------- plan on its own
MaxPlanned == 25

\* n verified accounts with distinct keys, in ascending order, in descending
\* order, or starting in the middle.
PlanInputs ==
    LET Verified(k) == [account_pubkey |-> k, lamports |-> 1, verifiedLamports |-> 1]
    IN UNION {{[i \in 1..n |-> Verified(i)],
               [i \in 1..n |-> Verified(n + 1 - i)],
               [i \in 1..n |-> Verified(((i + 1) % n) + 1)]} : n \in 0..MaxPlanned}

InitPlan ==
    /\ sponsored_accounts = <<>>
    /\ lifecycle_events = <<>>
    /\ PipelineIdle
    /\ AttIdle
    /\ StmtIdle
    /\ IndexerIdle
    /\ ptz = UTC
    /\ pnow = Today
    /\ batchSize = BATCH_SIZE
    /\ audit_log = <<>>
    /\ \E accounts \in PlanInputs :
          planner = [pc |-> "called", accounts |-> accounts, batches |-> <<>>]

\* this.planner.plan(valid).
PlanCall ==
    /\ planner.pc = "called"
    /\ planner' = [planner EXCEPT !.pc = "planned",
                                   !.batches = plan(planner.accounts,
                                                    MAX_INSTRUCTIONS_PER_TX)]
    /\ UNCHANGED <<ptz, pnow, batchSize, audit_log, pipelineVars, attVars, stmt, idxVars>>

SpecPlan == InitPlan /\ [][PlanCall]_vars

\* ---------------------------------------------- verify on forged documents
NextVerify ==
    \/ AttestGenerate
    \/ AttestForge

SpecVerify == InitAttest /\ [][NextVerify]_vars

\* ------------------------------------- Lifecycle and Policy on a host's clock
InitPolicy ==
    /\ sponsored_accounts = <<>>
    /\ lifecycle_events = <<>>
    /\ PipelineIdle
    /\ AttIdle
    /\ StmtIdle
    /\ IndexerIdle
    /\ ptz \in TimeZones
    /\ pnow = Today
    /\ batchSize = BATCH_SIZE
    /\ audit_log = <<>>
    /\ planner = NoPlan

NextPolicy ==
    \/ \E a \in Accts : IndexerStore(a, FALSE)
    \/ ClockTick
    \/ LifecycleScan
    \/ LifecycleEvaluate
    \/ \E c \in PolicyRunConfigs : PolicyRun(c)
    \/ \E a \in Accts : ChainDeposit(a)
    \/ \E a \in Accts : ChainClose(a)
    \/ \E a \in Accts : ChainAssign(a)

SpecPolicy == InitPolicy /\ [][NextPolicy]_vars

\* ------------------------------------------ the pipeline with dry-run workers
NextDry ==
    \/ \E a \in Accts : IndexerStore(a, FALSE)
    \/ LifecycleScan
    \/ LifecycleEvaluate
    \/ \E c \in PolicyConfigs : PolicyEvaluate(c)
    \/ \E w \in Workers : WorkerStart(w, TRUE)
    \/ \E w \in Workers : WorkerVerify(w)
    \/ \E w \in Workers : WorkerSimulate(w)
    \/ \E w \in Workers : WorkerReport(w)
    \/ \E w \in Workers : WorkerCrash(w)
    \/ \E a \in Accts : ChainDeposit(a)
    \/ \E a \in Accts : ChainClose(a)
    \/ \E a \in Accts : ChainAssign(a)

SpecDry == Init /\ [][NextDry]_vars

\* --------------------------------------------- the stages, statement by statement
NextStmt ==
    \/ \E a \in Accts : IndexerStore(a, FALSE)
    \/ \E a \in Accts : StmtLifecycleUpdate(a)
    \/ \E c \in PolicyConfigs : StmtPolicyUpdate(c)
    \/ StmtSkipUpdate(WorkerSeq[1])
    \/ StmtInsert
    \/ StmtStop
    \/ \E a \in Accts : ChainDeposit(a)
    \/ \E a \in Accts : ChainClose(a)
    \/ \E a \in Accts : ChainAssign(a)

SpecStmt == Init /\ [][NextStmt]_vars

\* ------------------------------------- the Indexer's runs over a growing history
NextIndexer ==
    \/ \E tx \in Transactions : OperatorTransaction(tx)
    \/ IndexerRun
    \/ IndexerFetch
    \/ IndexerParse
    \/ IndexerSave
    \/ IndexerRpcError
    \/ IndexerCrash
    \/ PolicyEvaluate(NoConfig)

SpecIndexer == Init /\ [][NextIndexer]_vars

\* C4: the document generate returns is accepted by verify, whatever the
\* ledger, the configuration and the key (or none).
GeneratedDocVerifies == apc = "generated" => AttestorVerify(doc)

\* A signed document over a ledger with a reclaimed and a failed account.
GeneratedDocVerifiesWitness ==
    /\ apc = "generated"
    /\ akey # NoKey
    /\ doc.signature.kind = "text"
    /\ doc.result_digest.failures # <<>>
    /\ doc.result_digest.transaction_signatures # <<>>
    /\ AttestorVerify(doc)

\* C5: a document generated with a key and then altered in one of manifest,
\* db_state_hash, result_digest, attestation_hash or signature is rejected
\* by verify.
TamperedDocRejected == (apc \in DocFields /\ akey # NoKey) => ~AttestorVerify(doc)

\* ------------------------------------------------------ pipeline properties
StateOf(tbl, a) == IF a \in Keys(tbl) THEN RowOf(tbl, a).lifecycle_state ELSE "absent"
LockOf(tbl, a) == IF a \in Keys(tbl) THEN RowOf(tbl, a).processing_lock ELSE NULL
Locked(tbl, a) == LockOf(tbl, a) # NULL /\ LockOf(tbl, a) # ""

TxsOf(a) == {i \in 1..Len(txlog) : a \in txlog[i].accounts}
ConfirmedTxsOf(a) == {i \in TxsOf(a) : txlog[i].confirmed}

\* C1: an account a worker has fetched and locked is in no other worker's
\* fetched set until the first worker has reported the account's outcome.
LockMutualExclusion ==
    \A w1 \in Workers : \A w2 \in Workers \ {w1} : owned[w1] \cap owned[w2] = {}

\* A worker died holding an account, and a worker that started afterwards
\* has fetched, got nothing and finished.
LockMutualExclusionWitness ==
    \E w1 \in Workers : \E w2 \in Workers \ {w1} :
        /\ wpc[w1] = "crashed" /\ owned[w1] # {}
        /\ lostReports # {} /\ startedAfter[w2] = lostReports
        /\ wpc[w2] = "done"

\* C2: every account of a transaction a worker signed and submitted was,
\* after the worker locked it and before it signed, seen on chain existing,
\* with lamports > 0, owned by the system program and with no data.
TxOnlyJitVerified ==
    \A i \in 1..Len(txlog) : txlog[i].accounts \subseteq txlog[i].seenOk

TxOnlyJitVerifiedWitness ==
    \E i \in 1..Len(txlog) : txlog[i].confirmed /\ txlog[i].accounts # {}

\* C3 as stated: if nothing is paid into an account after a confirmed
\* reclaim of it, at most one confirmed transaction transfers out of it.
AtMostOnceAfterConfirm ==
    \A a \in Accts : deposits[a] # "afterConfirm" => Cardinality(ConfirmedTxsOf(a)) <= 1

\* C3 amended: if nothing is paid into an account from the moment a JIT
\* verification has accepted it, at most one confirmed transaction
\* transfers out of it.
AtMostOnceAfterVerify ==
    \A a \in Accts :
        deposits[a] \notin {"afterVerify", "afterConfirm"}
            => Cardinality(ConfirmedTxsOf(a)) <= 1

\* The account was reclaimed once, came back to RECLAIMABLE in the ledger
\* and was stopped by the JIT check of a second fetch.
AtMostOnceWitness ==
    \E a \in Accts :
        /\ Cardinality(ConfirmedTxsOf(a)) = 1
        /\ deposits[a] = "none"
        /\ StateOf(sponsored_accounts, a) = "closed_zero"

\* The events of account a, oldest first.
EventsOf(a) ==
    LET Test(e) == e.account_pubkey = a
    IN SelectSeq(lifecycle_events, Test)

\* C6: the events of an account form a chain: the first starts at
\* DISCOVERED, each starts where the one before it ended, and the last ends
\* at the row's current lifecycle_state.
EventChainMatchesRow ==
    \A a \in Keys(sponsored_accounts) :
        LET evs == EventsOf(a)
        IN IF evs = <<>> THEN StateOf(sponsored_accounts, a) = "DISCOVERED"
           ELSE /\ evs[1].old_state = "DISCOVERED"
                /\ \A i \in 1..(Len(evs) - 1) : evs[i + 1].old_state = evs[i].new_state
                /\ evs[Len(evs)].new_state = StateOf(sponsored_accounts, a)

\* C7: a row with a non-empty processing_lock is RECLAIMABLE.
LockedOnlyReclaimable ==
    \A a \in Keys(sponsored_accounts) :
        Locked(sponsored_accounts, a) => StateOf(sponsored_accounts, a) = "RECLAIMABLE"

\* C8: a row in state RECLAIMED has lamports = 0.
ReclaimedHasNoLamports ==
    \A i \in 1..Len(sponsored_accounts) :
        sponsored_accounts[i].lifecycle_state = "RECLAIMED"
            => sponsored_accounts[i].lamports = 0

ReclaimedHasNoLamportsWitness ==
    \E i \in 1..Len(sponsored_accounts) :
        /\ sponsored_accounts[i].lifecycle_state = "RECLAIMED"
        /\ \E j \in 1..Len(txlog) :
              txlog[j].confirmed /\ sponsored_accounts[i].account_pubkey \in txlog[j].accounts

LifecycleEdges == {"DISCOVERED", "ACTIVE", "CLOSED"} \X {"DISCOVERED", "ACTIVE", "CLOSED"}
PolicyEdges ==
    {"DISCOVERED", "ACTIVE", "CLOSED", "SKIPPED"}
        \X {"PROTECTED", "SKIPPED", "DUST", "RECLAIMABLE"}
ReclaimerEdges == {"RECLAIMABLE"} \X {"SKIPPED", "closed_zero", "RECLAIMED", "FAILED"}
IndexerEdges == {<<"absent", "DISCOVERED">>}

\* The edges the step of a stage may take.
StageEdges ==
    IF LifecycleEvaluate THEN LifecycleEdges
    ELSE IF \E c \in PolicyConfigs : PolicyEvaluate(c) THEN PolicyEdges
    ELSE IF \E w \in Workers : WorkerStart(w, FALSE) \/ WorkerVerify(w) \/ WorkerReport(w)
         THEN ReclaimerEdges
    ELSE IndexerEdges

\* C9: every change of a row's lifecycle_state is an edge of the state
\* machine, taken by the stage the edge belongs to; so no stage moves a row
\* out of PROTECTED, DUST, RECLAIMED, FAILED or closed_zero.
OnlyStateMachineEdges ==
    [][\A a \in Accts :
          StateOf(sponsored_accounts, a) # StateOf(sponsored_accounts', a)
            => <<StateOf(sponsored_accounts, a), StateOf(sponsored_accounts', a)>>
                    \in StageEdges]_vars

\* C10: after a worker died between the confirmation of its transaction and
\* the report, a later Reclaimer run that has finished leaves the accounts
\* of that transaction closed_zero and unlocked, and no later transaction
\* transfers out of them.
CrashAfterConfirmRecovers ==
    /\ \A w \in Workers :
          wpc[w] = "done" =>
             \A t \in startedAfter[w] : \A a \in txlog[t].accounts :
                /\ StateOf(sponsored_accounts, a) = "closed_zero"
                /\ ~Locked(sponsored_accounts, a)
    /\ \A t \in lostReports : \A j \in (t + 1)..Len(txlog) :
          txlog[j].accounts \cap txlog[t].accounts = {}

\* The last event of every row ends at the row's state; a row without
\* events is as the Indexer stored it.
EventsCoverRows ==
    \A a \in Keys(sponsored_accounts) :
        IF EventsOf(a) = <<>> THEN StateOf(sponsored_accounts, a) = "DISCOVERED"
        ELSE EventsOf(a)[Len(EventsOf(a))].new_state = StateOf(sponsored_accounts, a)

\* C11: whenever no process is in the middle of a transition, in particular
\* after a Lifecycle, Policy or Reclaimer process has stopped at any point,
\* no row's lifecycle_state has changed without the event of that change
\* being in lifecycle_events.
StoppedLedgerConsistent == stmt = NoStmt => EventsCoverRows
\* A createAccount paid by the operator: fee payer and funder.
OperatorPaid(tx) == tx.newAccount # NULL /\ tx.feePayer = "operator" /\ tx.from = "operator"

\* C12: after a run that completed without error, whatever runs failed or
\* crashed before it, every account that an operator-paid createAccount of
\* the history as of the start of that run created has a row.
NoGapAfterCompletedRun ==
    ipc = "completed" =>
        \A i \in 1..seenLen :
            OperatorPaid(history[i]) => history[i].newAccount \in Keys(sponsored_accounts)

\* C13: the stored cursor changes only where none was stored, in a run that
\* started without one, to the newest signature of the run's first page,
\* and never to an older signature: so at most once per run.
CursorWrittenOncePerRun ==
    [][cursor' # cursor =>
          /\ cursor = NoSignature
          /\ untilSignature = NoSignature
          /\ cursor' = firstLatest
          /\ cursor' > cursor]_vars

\* C14: after a run that an RPC error stopped, the stored cursor is the one
\* the run read at its start.
RpcErrorKeepsCursor == ipc = "failed" => cursor = untilSignature

\* C15: in a run over the history a completed run has already seen, no step
\* of the Indexer changes sponsored_accounts or the cursor.
RerunChangesNothing ==
    [][(rerun /\ (IndexerFetch \/ IndexerParse \/ IndexerSave))
          => UNCHANGED <<sponsored_accounts, cursor>>]_vars

\* Such a run has finished and has come again across the createAccount of a
\* row that Policy has moved on since.
RerunChangesNothingWitness ==
    /\ rerun
    /\ ipc = "completed"
    /\ \E i \in (untilSignature + 1)..Len(history) :
          /\ OperatorPaid(history[i])
          /\ StateOf(sponsored_accounts, history[i].newAccount) \notin {"absent", "DISCOVERED"}
\* A step of a Reclaimer process that runs with --dry-run.
DryRunStep ==
    \E w \in Workers :
        \/ WorkerStart(w, TRUE)
        \/ wdry[w] /\ (WorkerVerify(w) \/ WorkerSimulate(w) \/ WorkerReport(w))

\* C16: no step of reclaim execute --dry-run writes to the ledger: the rows
\* of sponsored_accounts (lifecycle_state, lamports, processing_lock) and
\* lifecycle_events stay as they were.
DryRunWritesNothing == [][DryRunStep => UNCHANGED ledgerVars]_vars

\* C17: no transaction was signed or submitted by a dry-run worker, whatever
\* the ledger and the chain hold, and what such a worker reports for a batch
\* is the total of the batch's verified lamports.
DryRunNeverSubmits ==
    /\ \A i \in 1..Len(txlog) : ~wdry[txlog[i].worker]
    /\ \A w \in Workers :
          (wdry[w] /\ wpc[w] = "report") =>
              /\ result[w].success
              /\ result[w].signature = DRY_RUN_SIGNATURE
              /\ result[w].lamportsRecovered = SumVerified(Head(batches[w]))

\* A dry-run worker has simulated a batch worth something, and the chain
\* has seen no transaction.
DryRunNeverSubmitsWitness ==
    \E w \in Workers :
        /\ wdry[w]
        /\ wpc[w] = "report"
        /\ result[w].lamportsRecovered > 0
        /\ txlog = <<>>

\* C18: an account in the whitelist of a live Policy evaluate is not in
\* RECLAIMABLE after that evaluation, whatever its state before it.
WhitelistedNeverReclaimable ==
    [][\A c \in PolicyRunConfigs :
          (PolicyRun(c) /\ ~c.dryRun)
             => \A a \in c.whitelist \cap Keys(sponsored_accounts') :
                   StateOf(sponsored_accounts', a) # "RECLAIMABLE"]_vars

\* The outcome of the first matching rule, by the time that has passed since
\* the instant last_lifecycle_check names.
FirstMatchingRule(account, config, now) ==
    IF account.account_pubkey \in config.whitelist THEN "PROTECTED"
    ELSE IF account.lamports = NULL_INT \/ account.owner_program = NULL THEN "SKIPPED"
    ELSE IF account.owner_program # SYSTEM_PROGRAM_ID THEN "SKIPPED"
    ELSE IF account.data_len > 0 THEN "SKIPPED"
    ELSE IF account.lamports < config.minLamports THEN "DUST"
    ELSE IF account.lamports <= 0 THEN "SKIPPED"
    ELSE IF config.minAgeDays > 0
            /\ now - account.last_lifecycle_check < config.minAgeDays * DayLength
         THEN account.lifecycle_state
    ELSE "RECLAIMABLE"

\* C19: a live Policy evaluate leaves every account it evaluates in the state
\* of the first matching rule, in the fixed order of the rules.
PolicyAssignsFirstMatch ==
    [][\A c \in PolicyRunConfigs :
          (PolicyRun(c) /\ ~c.dryRun)
             => \A i \in 1..Len(sponsored_accounts) :
                   sponsored_accounts[i].lifecycle_state \notin PolicyExcluded
                      => sponsored_accounts'[i].lifecycle_state
                            = FirstMatchingRule(sponsored_accounts[i], c, pnow)]_vars

\* The same on a host whose local time is UTC.
PolicyAssignsFirstMatchInUTC ==
    [][\A c \in PolicyRunConfigs :
          (PolicyRun(c) /\ ~c.dryRun /\ ptz = UTC)
             => \A i \in 1..Len(sponsored_accounts) :
                   sponsored_accounts[i].lifecycle_state \notin PolicyExcluded
                      => sponsored_accounts'[i].lifecycle_state
                            = FirstMatchingRule(sponsored_accounts[i], c, pnow)]_vars

\* The most recent event of an account into a state, or NoEvent.
LastEvent(evs, pubkey, newState) ==
    LET Test(e) == e.account_pubkey = pubkey /\ e.new_state = newState
        hits == SelectSeq(evs, Test)
    IN IF hits = <<>> THEN NoEvent ELSE hits[Len(hits)]

\* The most recent RECLAIMED events of the rows now in RECLAIMED, in the
\* order of the rows.
ReclaimedEvents(tbl, evs) ==
    LET Test(r) == r.lifecycle_state = "RECLAIMED"
        rows == SelectSeq(tbl, Test)
    IN [i \in 1..Len(rows) |-> LastEvent(evs, rows[i].account_pubkey, "RECLAIMED")]

RECURSIVE SumAmounts(_)
SumAmounts(events) ==
    IF events = <<>> THEN 0
    ELSE OrZero(Head(events).evidence_payload.amount) + SumAmounts(Tail(events))

SignaturesOf(events) ==
    LET Signed(e) == e.evidence_payload.signature # NULL_INT
        signed == SelectSeq(events, Signed)
    IN [i \in 1..Len(signed) |-> signed[i].evidence_payload.signature]

\* C20: the result digest built from the ledger sums the amounts of the most
\* recent RECLAIMED event of exactly the rows now in RECLAIMED and lists
\* those events' signatures in ascending order; no other row contributes.
DigestCountsOnlyReclaimed ==
    LET digest == ResultBuild(ScanAccounts(sponsored_accounts, lifecycle_events,
                                           EmptyBuilder))
        events == ReclaimedEvents(sponsored_accounts, lifecycle_events)
    IN /\ digest.total_lamports_reclaimed = [decimal |-> SumAmounts(events)]
       /\ digest.transaction_signatures = SortSignatures(SignaturesOf(events))

\* The failures of the rows now in FAILED, each with the reason of its most
\* recent FAILED event, in the order of the rows.
FailedEntries(tbl, evs) ==
    LET Test(r) == r.lifecycle_state = "FAILED"
        rows == SelectSeq(tbl, Test)
    IN [i \in 1..Len(rows) |->
          [pubkey |-> rows[i].account_pubkey,
           reason |-> LastEvent(evs, rows[i].account_pubkey, "FAILED").trigger_reason]]

\* C21: the failures of a generated document are one entry per row now in
\* FAILED, with the reason of its most recent FAILED event, by pubkey.
FailuresMatchLastFailedEvent ==
    apc = "generated"
       => doc.result_digest.failures
             = SortFailures(FailedEntries(sponsored_accounts, lifecycle_events))

\* The rows in the opposite order.
ReverseRows(tbl) == [i \in 1..Len(tbl) |-> tbl[Len(tbl) + 1 - i]]
RowOrders(tbl) == {tbl, ReverseRows(tbl)}

\* C22 as stated: the document generated from a ledger, a configuration and
\* a key is the document generate returns for any order of the rows.
SameDocAnyRowOrder ==
    apc = "generated"
       => \A rows \in RowOrders(sponsored_accounts) :
             AttestationServiceGenerate(rows, lifecycle_events, aconfig.network,
                                        aconfig.config, akey, aconfig.rpcEndpoint) = doc

\* C22: the documents generated from the rows in any order agree in the
\* manifest, the attestation hash and the signature, and in the result
\* digest but for the order of the keys of its accounts.
SameDocUpToKeyOrder ==
    apc = "generated"
       => \A rows \in RowOrders(sponsored_accounts) :
             LET other == AttestationServiceGenerate(rows, lifecycle_events,
                                                     aconfig.network, aconfig.config, akey,
                                                     aconfig.rpcEndpoint)
             IN /\ other.manifest = doc.manifest
                /\ other.attestation_hash = doc.attestation_hash
                /\ other.signature = doc.signature
                /\ canonicalize(other.result_digest) = canonicalize(doc.result_digest)

SameDocUpToKeyOrderWitness ==
    /\ apc = "generated"
    /\ akey # NoKey
    /\ Len(sponsored_accounts) = 2
    /\ ReverseRows(sponsored_accounts) # sponsored_accounts
    /\ Len(doc.result_digest.transaction_signatures) = 2
    /\ doc.result_digest.transaction_signatures[1]
          # doc.result_digest.transaction_signatures[2]
    /\ doc.signature.kind = "text"

\* C23: verify accepts only documents whose manifest.db_state_hash is the
\* top-level db_state_hash, whatever the two fields hold.
VerifiedDocHashesAgree ==
    (apc \in {"generated", "forged"} /\ AttestorVerify(doc))
       => doc.manifest.db_state_hash = doc.db_state_hash

HashRecomputes(d) == toHex(computedHashBytes(d)) = d.attestation_hash
SignaturePresent(d) == d.signature.kind = "text"
SignatureValid(d) ==
    \E k \in OperatorKeys :
       /\ toBase58(PublicKeyOf(k)) = d.manifest.operator_pubkey
       /\ fromBase64(d.signature) = sign(computedHashBytes(d), k)
DbHashRejected(d) ==
    /\ d.manifest.db_state_hash # EmptyText
    /\ d.manifest.db_state_hash # d.db_state_hash

ReclaimerOutcomes == {"closed_zero", "SKIPPED", "RECLAIMED", "FAILED"}

\* The events the Reclaimer wrote for an account: it alone moves a row out
\* of RECLAIMABLE here.
ReclaimerEventsOf(a) ==
    LET Test(e) == e.account_pubkey = a /\ e.old_state = "RECLAIMABLE"
    IN SelectSeq(lifecycle_events, Test)

\* The accounts with a RECLAIMED event that carries signature s.
ReclaimedWith(s) ==
    {lifecycle_events[i].account_pubkey : i \in
        {j \in 1..Len(lifecycle_events) :
            /\ lifecycle_events[j].new_state = "RECLAIMED"
            /\ lifecycle_events[j].evidence_payload.signature = s}}

BothLoopsTerminated == \A w \in Workers : wpc[w] = "done"

\* C25: when the loops of two concurrent live workers have terminated, every
\* account is in one Reclaimer outcome state, unlocked, with exactly one
\* event of the Reclaimer, and the RECLAIMED events of one signature belong
\* to the accounts of one batch of one worker.
TwoWorkersSettleEveryAccount ==
    BothLoopsTerminated
       => /\ \A a \in Keys(sponsored_accounts) :
                /\ StateOf(sponsored_accounts, a) \in ReclaimerOutcomes
                /\ ~Locked(sponsored_accounts, a)
                /\ Len(ReclaimerEventsOf(a)) = 1
                /\ ReclaimerEventsOf(a)[1].new_state = StateOf(sponsored_accounts, a)
          /\ \A i \in 1..Len(lifecycle_events) :
                lifecycle_events[i].new_state = "RECLAIMED"
                   => LET s == lifecycle_events[i].evidence_payload.signature
                      IN Cardinality({t \in 1..Len(txlog) :
                                        /\ txlog[t].signature = s
                                        /\ txlog[t].confirmed
                                        /\ ReclaimedWith(s) = txlog[t].accounts}) = 1

\* Both workers held an account, one reclaimed its own, the other's
\* transaction failed.
TwoWorkersSettleWitness ==
    /\ BothLoopsTerminated
    /\ \E i, j \in 1..Len(txlog) :
          /\ txlog[i].worker # txlog[j].worker
          /\ txlog[i].confirmed
          /\ ~txlog[j].confirmed
    /\ \E a \in Keys(sponsored_accounts) : StateOf(sponsored_accounts, a) = "RECLAIMED"
    /\ \E a \in Keys(sponsored_accounts) : StateOf(sponsored_accounts, a) = "FAILED"

\* One worker reclaimed both accounts in one transaction.
TwoWorkersOneBatchWitness ==
    /\ BothLoopsTerminated
    /\ \E t \in 1..Len(txlog) : txlog[t].confirmed /\ Cardinality(txlog[t].accounts) = 2
    /\ \A a \in Keys(sponsored_accounts) : StateOf(sponsored_accounts, a) = "RECLAIMED"

\* C26: the state hash of a generated attestation is the hash of the two
\* tables as they are now, in whatever order sponsored_accounts stores its
\* rows, and however many rows audit_log and the cursor store have gained
\* before or after the attestation was generated.
StateHashOfTwoTablesOnly ==
    apc = "generated" =>
        \A rows \in RowOrders(sponsored_accounts) :
            computeStateHash(rows, lifecycle_events) = doc.db_state_hash

\* An attestation over two rows and some events, with audit_log and the
\* cursor written.
StateHashOfTwoTablesOnlyWitness ==
    /\ apc = "generated"
    /\ Len(sponsored_accounts) >= 2
    /\ lifecycle_events # <<>>
    /\ Len(audit_log) = MaxAudit
    /\ cursor # NoSignature
    /\ doc.db_state_hash = computeStateHash(sponsored_accounts, lifecycle_events)

\* C27: no step of any stage deletes a row of sponsored_accounts or touches
\* an event already written: every row stays where it is under its key, and
\* the events of before are the first events of after.
LedgerAppendOnly ==
    [][/\ Len(sponsored_accounts') >= Len(sponsored_accounts)
       /\ \A i \in 1..Len(sponsored_accounts) :
             sponsored_accounts'[i].account_pubkey = sponsored_accounts[i].account_pubkey
       /\ Len(lifecycle_events') >= Len(lifecycle_events)
       /\ SubSeq(lifecycle_events', 1, Len(lifecycle_events)) = lifecycle_events]_vars

\* Lifecycle, Policy and the Reclaimer have each written an event, the
\* Reclaimer's after a JIT verification that found the account gone.
LedgerAppendOnlyWitness ==
    /\ sponsored_accounts # <<>>
    /\ \E i, j, k \in 1..Len(lifecycle_events) :
          /\ i < j /\ j < k
          /\ lifecycle_events[i].old_state = "DISCOVERED"
          /\ lifecycle_events[j].new_state = "RECLAIMABLE"
          /\ lifecycle_events[k].old_state = "RECLAIMABLE"
          /\ lifecycle_events[k].new_state = "closed_zero"

\* The outcome of the first check that matches, in the order of the checks.
JitOutcome(info) ==
    CASE ~info.exists -> "closed_zero"
      [] info.exists /\ info.lamports = 0 -> "closed_zero"
      [] info.exists /\ info.lamports # 0 /\ info.owner # SYSTEM_PROGRAM_ID -> "SKIPPED"
      [] info.exists /\ info.lamports # 0 /\ info.owner = SYSTEM_PROGRAM_ID
            /\ info.dataLen > 0 -> "SKIPPED"
      [] OTHER -> "verified"

InBatches(bs, a) ==
    \E i \in 1..Len(bs) : \E j \in 1..Len(bs[i]) : bs[i][j].account_pubkey = a

EventsAbout(evs, a) ==
    LET Test(e) == e.account_pubkey = a
    IN SelectSeq(evs, Test)

\* C28: when a worker's JIT verification answers, each account it holds gets
\* the outcome of the first matching check; an account with a non-verified
\* outcome is put in that state with its lock cleared and one event from
\* RECLAIMABLE to that state, and is in no batch the worker plans; a
\* verified account stays locked and RECLAIMABLE and is planned.
JitOutcomeRecorded ==
    [][\A w \in Workers : WorkerVerify(w) =>
          \A i \in 1..Len(candidates[w]) :
             LET a == candidates[w][i].account_pubkey
                 outcome == JitOutcome(chain[a])
                 new == SubSeq(EventsAbout(lifecycle_events', a),
                               Len(EventsAbout(lifecycle_events, a)) + 1,
                               Len(EventsAbout(lifecycle_events', a)))
             IN IF outcome = "verified"
                THEN /\ InBatches(batches'[w], a)
                     /\ StateOf(sponsored_accounts', a) = "RECLAIMABLE"
                     /\ LockOf(sponsored_accounts', a) = w
                     /\ new = <<>>
                ELSE /\ ~InBatches(batches'[w], a)
                     /\ StateOf(sponsored_accounts', a) = outcome
                     /\ LockOf(sponsored_accounts', a) = NULL
                     /\ Len(new) = 1
                     /\ new[1].old_state = "RECLAIMABLE"
                     /\ new[1].new_state = outcome]_vars

\* A row with a positive stored balance that JIT verification found with 0
\* lamports on chain, beside an account that went into a transaction.
JitOutcomeRecordedWitness ==
    \E a \in Keys(sponsored_accounts) :
        /\ StateOf(sponsored_accounts, a) = "closed_zero"
        /\ RowOf(sponsored_accounts, a).lamports > 0
        /\ LockOf(sponsored_accounts, a) = NULL
        /\ chain[a].exists /\ chain[a].lamports = 0
        /\ TxsOf(a) = {}
        /\ \E e \in Range(lifecycle_events) :
              e.account_pubkey = a /\ e.trigger_reason = "Account has 0 lamports"
        /\ \E b \in Keys(sponsored_accounts) \ {a} : TxsOf(b) # {}

RECURSIVE SumOver(_, _)
SumOver(f, S) ==
    IF S = {} THEN 0
    ELSE LET x == CHOOSE x \in S : TRUE
         IN f[x] + SumOver(f, S \ {x})

\* The amount each account of a batch carries.
AmountsOf(batch) ==
    [a \in Range(Pubkeys(batch)) |->
        LET i == CHOOSE i \in 1..Len(batch) : batch[i].account_pubkey = a
        IN batch[i].verifiedLamports]

\* C29: the amount an account carries into the plan is the lamports the
\* chain answered at the JIT verification of this iteration; a confirmed
\* transaction takes exactly that amount from each account of its batch and
\* reports the sum of these amounts; the report writes that sum into the
\* events of the batch.
TransfersMoveVerifiedLamports ==
    [][\A w \in Workers :
          /\ WorkerVerify(w) =>
                \A i \in 1..Len(batches'[w]) : \A j \in 1..Len(batches'[w][i]) :
                    batches'[w][i][j].verifiedLamports
                        = chain[batches'[w][i][j].account_pubkey].lamports
          /\ WorkerSubmitConfirmed(w) =>
                LET amounts == AmountsOf(Head(batches[w]))
                IN /\ \A a \in DOMAIN amounts :
                         chain[a].lamports - chain'[a].lamports = amounts[a]
                   /\ \A a \in DOMAIN chain \ DOMAIN amounts : chain'[a] = chain[a]
                   /\ result'[w].lamportsRecovered = SumOver(amounts, DOMAIN amounts)
          /\ (WorkerReport(w) /\ result[w].success) =>
                LET amounts == AmountsOf(Head(batches[w]))
                IN \A k \in (Len(lifecycle_events) + 1)..Len(lifecycle_events') :
                      lifecycle_events'[k].new_state = "RECLAIMED" =>
                         lifecycle_events'[k].evidence_payload.batchTotal
                            = SumOver(amounts, DOMAIN amounts)]_vars

\* A confirmed transaction of two accounts, one of which held more on chain
\* than the ledger had stored, about to be reported with the sum of the two
\* on-chain balances.
TransfersMoveVerifiedLamportsWitness ==
    \E w \in Workers :
        /\ wpc[w] = "report"
        /\ result[w].success
        /\ Len(Head(batches[w])) = 2
        /\ \E i \in 1..2 :
              /\ Head(batches[w])[i].verifiedLamports = MaxLamports
              /\ Head(batches[w])[i].lamports < MaxLamports
        /\ result[w].lamportsRecovered > MaxLamports
        /\ \A i \in 1..2 : chain[Head(batches[w])[i].account_pubkey].lamports = 0

\* The RECLAIMED events about account a.
ReclaimedEventsAbout(evs, a) ==
    LET Test(e) == e.account_pubkey = a /\ e.new_state = "RECLAIMED"
    IN SelectSeq(evs, Test)

\* The batch of a confirmed transaction is recorded, with the signature of
\* the transaction, for all of its accounts or for none of them.
BatchRecordedWhole(tbl, evs, log) ==
    \A t \in 1..Len(log) : log[t].confirmed =>
        \/ \A a \in log[t].accounts :
              /\ StateOf(tbl, a) = "RECLAIMED"
              /\ RowOf(tbl, a).lamports = 0
              /\ LockOf(tbl, a) = NULL
              /\ Len(ReclaimedEventsAbout(evs, a)) = 1
              /\ ReclaimedEventsAbout(evs, a)[1].evidence_payload.signature
                    = log[t].signature
        \/ \A a \in log[t].accounts :
              /\ StateOf(tbl, a) = "RECLAIMABLE"
              /\ LockOf(tbl, a) = log[t].worker
              /\ ReclaimedEventsAbout(evs, a) = <<>>

\* C30: the report of a confirmed batch puts every account of the batch in
\* RECLAIMED with lamports 0 and no lock, and appends exactly one event per
\* account that holds the signature and the batch total of the result; in
\* no state is a confirmed batch recorded for some of its accounts only.
ConfirmedBatchRecordedAtOnce ==
    [][/\ BatchRecordedWhole(sponsored_accounts', lifecycle_events', txlog')
       /\ \A w \in Workers : (WorkerReport(w) /\ result[w].success) =>
             \A a \in Range(Pubkeys(Head(batches[w]))) :
                LET new == SubSeq(EventsAbout(lifecycle_events', a),
                                  Len(EventsAbout(lifecycle_events, a)) + 1,
                                  Len(EventsAbout(lifecycle_events', a)))
                IN /\ StateOf(sponsored_accounts', a) = "RECLAIMED"
                   /\ RowOf(sponsored_accounts', a).lamports = 0
                   /\ LockOf(sponsored_accounts', a) = NULL
                   /\ Len(new) = 1
                   /\ new[1].new_state = "RECLAIMED"
                   /\ new[1].evidence_payload.signature = result[w].signature
                   /\ new[1].evidence_payload.batchTotal
                         = result[w].lamportsRecovered]_vars

\* A confirmed transaction of two accounts has been reported.
ConfirmedBatchRecordedAtOnceWitness ==
    \E t \in 1..Len(txlog) :
        /\ txlog[t].confirmed
        /\ Cardinality(txlog[t].accounts) = 2
        /\ \A a \in txlog[t].accounts :
              /\ StateOf(sponsored_accounts, a) = "RECLAIMED"
              /\ \E e \in Range(lifecycle_events) :
                    /\ e.account_pubkey = a
                    /\ e.evidence_payload.signature = txlog[t].signature
                    /\ e.evidence_payload.batchTotal > MaxLamports

\* C31: the report of a failed batch puts every account of the batch in
\* FAILED with its lock cleared and its lamports column as it was, and
\* appends one event per account that carries the error message; every other
\* row and every other account's events stay as they were, and no account
\* of the batch gets a RECLAIMED event.
FailedBatchRecorded ==
    [][\A w \in Workers : (WorkerReport(w) /\ ~result[w].success) =>
          LET failed == Range(Pubkeys(Head(batches[w])))
              fetched == Range(Pubkeys(candidates'[w]))
          IN /\ result[w].error \in ErrorMessages
             /\ \A a \in failed :
                   LET new == SubSeq(EventsAbout(lifecycle_events', a),
                                     Len(EventsAbout(lifecycle_events, a)) + 1,
                                     Len(EventsAbout(lifecycle_events', a)))
                   IN /\ StateOf(sponsored_accounts', a) = "FAILED"
                      /\ LockOf(sponsored_accounts', a) = NULL
                      /\ RowOf(sponsored_accounts', a).lamports
                            = RowOf(sponsored_accounts, a).lamports
                      /\ Len(new) = 1
                      /\ new[1].old_state = "RECLAIMABLE"
                      /\ new[1].new_state = "FAILED"
                      /\ new[1].trigger_reason = TxErrorReason(result[w].error)
             /\ \A a \in Keys(sponsored_accounts) \ failed :
                   /\ StateOf(sponsored_accounts', a) = StateOf(sponsored_accounts, a)
                   /\ EventsAbout(lifecycle_events', a) = EventsAbout(lifecycle_events, a)
                   /\ a \notin fetched =>
                         RowOf(sponsored_accounts', a) = RowOf(sponsored_accounts, a)]_vars

\* A two-account batch failed for want of lamports and was reported, the rows
\* keeping the lamports the ledger had stored.
FailedBatchRecordedWitness ==
    \E t \in 1..Len(txlog) :
        /\ ~txlog[t].confirmed
        /\ Cardinality(txlog[t].accounts) = 2
        /\ \A a \in txlog[t].accounts :
              /\ StateOf(sponsored_accounts, a) = "FAILED"
              /\ LockOf(sponsored_accounts, a) = NULL
              /\ RowOf(sponsored_accounts, a).lamports > 0
              /\ \E e \in Range(lifecycle_events) :
                    /\ e.account_pubkey = a
                    /\ e.trigger_reason = "Tx Error: insufficient lamports"

\* What execute() leaves when it returns: no RECLAIMABLE row without a lock,
\* no row under this worker's lock.
ReturnedClean(w) ==
    \A i \in 1..Len(sponsored_accounts) :
        /\ sponsored_accounts[i].lifecycle_state = "RECLAIMABLE"
              => sponsored_accounts[i].processing_lock \notin {NULL, ""}
        /\ sponsored_accounts[i].processing_lock # w

\* C32: the one worker's execute() reaches its return, and from then on no
\* row is RECLAIMABLE with an empty lock and no row holds the worker's lock.
SingleWorkerTerminatesClean ==
    /\ <>(wpc[WorkerSeq[1]] = "done")
    /\ [](wpc[WorkerSeq[1]] = "done" => ReturnedClean(WorkerSeq[1]))

\* The run returned after a transaction, a Lifecycle scan having run beside
\* it, with a row still under the lock of an earlier worker.
SingleWorkerTerminatesCleanWitness ==
    /\ wpc[WorkerSeq[1]] = "done"
    /\ txlog # <<>>
    /\ runs > 0
    /\ \E i \in 1..Len(sponsored_accounts) :
          /\ sponsored_accounts[i].lifecycle_state = "RECLAIMABLE"
          /\ sponsored_accounts[i].processing_lock = WorkerSeq[2]

RECURSIVE Flatten(_)
Flatten(bs) == IF bs = <<>> THEN <<>> ELSE Head(bs) \o Flatten(Tail(bs))

\* C33: the batches of a plan, one after the other, are the verified
\* accounts in their order; no batch is empty, none holds more than 10
\* accounts, and every batch but the last holds 10.
PlanPartitionsInOrder ==
    planner.pc = "planned" =>
        /\ Flatten(planner.batches) = planner.accounts
        /\ \A i \in 1..Len(planner.batches) :
              /\ planner.batches[i] # <<>>
              /\ Len(planner.batches[i]) <= 10
              /\ i < Len(planner.batches) => Len(planner.batches[i]) = 10
        /\ \A k \in Range(Pubkeys(planner.accounts)) :
              Cardinality({ij \in {<<i, j>> : i \in 1..Len(planner.batches), j \in 1..10} :
                             /\ ij[2] <= Len(planner.batches[ij[1]])
                             /\ planner.batches[ij[1]][ij[2]].account_pubkey = k}) = 1

\* A plan of more than 20 accounts: two full batches and a shorter last one.
PlanPartitionsInOrderWitness ==
    /\ planner.pc = "planned"
    /\ Len(planner.batches) = 3
    /\ Len(planner.batches[3]) \in 1..9
    /\ planner.accounts[1].account_pubkey # 1

NoScanError == \A i \in 1..Len(audit_log) : audit_log[i].level # "ERROR"

\* The row holds the label and the values of the chain's answer.
RowShows(row, info) ==
    /\ row.lifecycle_state = (IF info.exists THEN "ACTIVE" ELSE "CLOSED")
    /\ info.exists =>
          /\ row.lamports = info.lamports
          /\ row.data_len = info.dataLen
          /\ row.owner_program = info.owner

\* C34: each evaluation of a live scan leaves its row with CLOSED if the
\* chain answered absent and ACTIVE otherwise, and with the observed lamports,
\* data length and owner, whatever the row's state was; it writes one event
\* if that label differs from the state stored before and none otherwise, and
\* touches no other row; a scan that ends without an RPC failure has done so
\* for every row.
ScanLabelsEveryRow ==
    [][/\ ScanEvaluate =>
             LET a == laccounts[li].account_pubkey
                 before == RowOf(sponsored_accounts, a).lifecycle_state
                 after == RowOf(sponsored_accounts', a)
             IN /\ RowShows(after, linfos[li])
                /\ IF after.lifecycle_state # before
                   THEN /\ Len(lifecycle_events') = Len(lifecycle_events) + 1
                        /\ LET e == lifecycle_events'[Len(lifecycle_events')]
                           IN /\ e.account_pubkey = a
                              /\ e.old_state = before
                              /\ e.new_state = after.lifecycle_state
                   ELSE lifecycle_events' = lifecycle_events
                /\ \A b \in Keys(sponsored_accounts) \ {a} :
                      RowOf(sponsored_accounts', b) = RowOf(sponsored_accounts, b)
       /\ (lpc' = "done" /\ NoScanError') =>
             \A i \in 1..Len(sponsored_accounts') :
                /\ RowShows(sponsored_accounts'[i],
                            chain'[sponsored_accounts'[i].account_pubkey])
                /\ sponsored_accounts'[i].last_lifecycle_check = CURRENT_TIMESTAMP(pnow')
                /\ Len(EventsAbout(lifecycle_events', sponsored_accounts'[i].account_pubkey))
                      = Len(ScanEvents(laccounts'[i].account_pubkey,
                                       laccounts'[i].lifecycle_state, i))
                        + (IF laccounts'[i].lifecycle_state
                                # sponsored_accounts'[i].lifecycle_state THEN 1 ELSE 0)]_vars

\* A scan in two chunks ended without a failure: a RECLAIMED row is ACTIVE
\* again with the chain's lamports, a CLOSED row stayed CLOSED.
ScanLabelsEveryRowWitness ==
    /\ lpc = "done"
    /\ NoScanError
    /\ batchSize = 1
    /\ \E i, j \in 1..Len(sponsored_accounts) :
          /\ laccounts[i].lifecycle_state = "RECLAIMED"
          /\ sponsored_accounts[i].lifecycle_state = "ACTIVE"
          /\ sponsored_accounts[i].lamports = MaxLamports
          /\ laccounts[j].lifecycle_state = "CLOSED"
          /\ sponsored_accounts[j].lifecycle_state = "CLOSED"

\* The indices of the chunk that holds index i.
ChunkOf(i) ==
    {j \in 1..Len(laccounts) :
        ChunkEnd(j, batchSize, Len(laccounts)) = ChunkEnd(i, batchSize, Len(laccounts))}

\* The scan has not touched the row at index j: it was not checked at the
\* time of the scan and its account has the events it had before.
ScanLeftAlone(j) ==
    /\ sponsored_accounts[j].last_lifecycle_check # CURRENT_TIMESTAMP(pnow)
    /\ sponsored_accounts[j].lifecycle_state = laccounts[j].lifecycle_state
    /\ EventsAbout(lifecycle_events, laccounts[j].account_pubkey)
          = ScanEvents(laccounts[j].account_pubkey, laccounts[j].lifecycle_state, j)

\* C35: when an RPC call of a chunk fails, no row of that chunk has been
\* modified and no event has been written for any of them, the step changes
\* neither table, and the scan goes on with the next chunk if there is one.
FailedChunkSkipped ==
    [][(ScanChunkFails \/ ScanRentFails) =>
          /\ \A j \in ChunkOf(li) : ScanLeftAlone(j)
          /\ UNCHANGED ledgerVars
          /\ IF ChunkEnd(li, batchSize, Len(laccounts)) < Len(laccounts)
             THEN lpc' = "chunk" /\ li' = ChunkEnd(li, batchSize, Len(laccounts)) + 1
             ELSE lpc' = "done"]_vars

\* The same, for a failure of getMultipleAccountsInfo, the first call of a
\* chunk.
FailedChunkFetchSkipped ==
    [][ScanChunkFails =>
          /\ \A j \in ChunkOf(li) : ScanLeftAlone(j)
          /\ UNCHANGED ledgerVars
          /\ IF ChunkEnd(li, batchSize, Len(laccounts)) < Len(laccounts)
             THEN lpc' = "chunk" /\ li' = ChunkEnd(li, batchSize, Len(laccounts)) + 1
             ELSE lpc' = "done"]_vars

\* The first chunk failed and the second was processed.
FailedChunkSkippedWitness ==
    /\ lpc = "done"
    /\ ~NoScanError
    /\ batchSize = 1
    /\ ScanLeftAlone(1)
    /\ sponsored_accounts[2].last_lifecycle_check = CURRENT_TIMESTAMP(pnow)

\* C36: a Policy evaluation leaves every account whose state is RECLAIMABLE,
\* RECLAIMED or closed_zero in that state and writes no event for it.
PolicyLeavesFinalStates ==
    [][\A c \in PolicyConfigs : PolicyEvaluate(c) =>
          \A a \in Keys(sponsored_accounts) :
             StateOf(sponsored_accounts, a) \in {"RECLAIMABLE", "RECLAIMED", "closed_zero"} =>
                /\ StateOf(sponsored_accounts', a) = StateOf(sponsored_accounts, a)
                /\ EventsAbout(lifecycle_events', a) = EventsAbout(lifecycle_events, a)]_vars

\* evaluate() under config on the host's clock and zone, on ledger db.
PolicyPass(db, config) ==
    PolicyLoop(PolicyCandidates(db.tbl), config, pnow, ptz, db)

\* C37: on any ledger the runs reach, a live evaluation followed at once by
\* a second one with the same configuration and clock leaves the ledger as
\* the first one left it: no state changes, no event is appended.
PolicyRerunChangesNothing ==
    \A config \in {c \in PolicyRunConfigs : ~c.dryRun} :
        LET db == [tbl |-> sponsored_accounts, evs |-> lifecycle_events]
            once == PolicyPass(db, config)
        IN PolicyPass(once, config) = once

\* A ledger on which an evaluation has marked a row DUST and on which a
\* first evaluation under another configuration would write again.
PolicyRerunChangesNothingWitness ==
    /\ \E i \in 1..Len(sponsored_accounts) : sponsored_accounts[i].lifecycle_state = "DUST"
    /\ \E e \in Range(lifecycle_events) : e.new_state = "DUST"
    /\ \E config \in {c \in PolicyRunConfigs : ~c.dryRun} :
          LET db == [tbl |-> sponsored_accounts, evs |-> lifecycle_events]
          IN /\ Len(PolicyPass(db, config).evs) > Len(lifecycle_events)
             /\ PolicyPass(PolicyPass(db, config), config) = PolicyPass(db, config)

\* The RECLAIMED events of the ledger.
ReclaimedWritten(evs) ==
    LET Test(e) == e.new_state = "RECLAIMED" IN SelectSeq(evs, Test)

\* Every RECLAIMED event is the report of a confirmed transaction on the
\* account's batch.
ReportedByReclaimer(evs, log) ==
    LET written == ReclaimedWritten(evs)
    IN \A k \in 1..Len(written) :
          \E t \in 1..Len(log) :
             /\ log[t].confirmed
             /\ log[t].signature = written[k].evidence_payload.signature
             /\ written[k].account_pubkey \in log[t].accounts

\* The lamports moved by the reported transactions: the batch total of each
\* signature, once.
RECURSIVE SumBatchTotals(_)
SumBatchTotals(batchOf) ==
    IF batchOf = {} THEN 0
    ELSE LET b == CHOOSE x \in batchOf : TRUE
         IN b.batchTotal + SumBatchTotals(batchOf \ {b})

TransferredTotal(evs) ==
    LET written == ReclaimedWritten(evs)
    IN SumBatchTotals({[signature |-> written[k].evidence_payload.signature,
                        batchTotal |-> written[k].evidence_payload.batchTotal] :
                          k \in 1..Len(written)})

\* C38: on a ledger whose RECLAIMED events were all written by the report
\* of confirmed batches, the total_lamports_reclaimed of the result digest is
\* the total of the lamports those batches transferred.
DigestTotalIsTransferred ==
    ReportedByReclaimer(lifecycle_events, txlog)
       => ResultBuild(ScanAccounts(sponsored_accounts, lifecycle_events,
                                   EmptyBuilder)).total_lamports_reclaimed
             = [decimal |-> TransferredTotal(lifecycle_events)]

\* What the digest does carry on such a ledger: zero.
DigestTotalIsZero ==
    ReportedByReclaimer(lifecycle_events, txlog)
       => ResultBuild(ScanAccounts(sponsored_accounts, lifecycle_events,
                                   EmptyBuilder)).total_lamports_reclaimed
             = [decimal |-> 0]

\* The configurations that differ from config in the min_lamports they give.
OtherMinLamports(config) ==
    {c \in {i.config : i \in AttestInputs} :
        /\ c.min_lamports # config.min_lamports
        /\ c.MIN_LAMPORTS_RECLAIM = config.MIN_LAMPORTS_RECLAIM
        /\ c.MIN_AGE_DAYS = config.MIN_AGE_DAYS}

\* C39: the manifest of a generated document carries the min_lamports of
\* the configuration given to generate, and a document generated from the
\* same ledger under a configuration with another min_lamports has another
\* manifest and another attestation hash.
ManifestBindsConfig ==
    apc = "generated" =>
       /\ doc.manifest.config.min_lamports = OrZero(aconfig.config.min_lamports)
       /\ \A c \in OtherMinLamports(aconfig.config) :
             LET other == AttestationServiceGenerate(sponsored_accounts, lifecycle_events,
                                                     aconfig.network, c, akey,
                                                     aconfig.rpcEndpoint)
             IN /\ other.manifest # doc.manifest
                /\ other.attestation_hash # doc.attestation_hash

\* What the manifest does carry: the MIN_LAMPORTS_RECLAIM and MIN_AGE_DAYS
\* of the configuration, zero where it has none.
ManifestReadsUpperCaseKeys ==
    apc = "generated" =>
       /\ doc.manifest.config.min_lamports = OrZero(aconfig.config.MIN_LAMPORTS_RECLAIM)
       /\ doc.manifest.config.min_age_days = OrZero(aconfig.config.MIN_AGE_DAYS)

\* C40: when the fetch or the parsing of one signature's transaction fails,
\* the run goes on with the signatures that remain of the page and with the
\* pages that follow; only a failure of the signature listing ends the loop.
SignatureFailureKeepsRun ==
    [][/\ (IndexerRpcError /\ ipc = "parse") =>
             /\ signatures' = Tail(signatures)
             /\ ipc' = IF Tail(signatures) = <<>> THEN "save" ELSE "parse"
       /\ (IndexerRpcError /\ ipc = "fetch") => ipc' = "failed"]_vars

\* What the catch block does: any call of the loop body that throws, the
\* listing or the fetch of one transaction, ends the run with the rest of the
\* page unread.
AnyRpcFailureEndsRun ==
    [][IndexerRpcError => ipc' = "failed" /\ signatures' = <<>>]_vars

====
